---- MODULE Spec2Model ----
(***************************************************************************)
(* peon-ping: the hook dispatcher of src/peon.py as a state machine.       *)
(*                                                                         *)
(* The persistent state is the state document (.state.json), the pause     *)
(* marker (.paused) and the configuration document (config.json).  One     *)
(* hook invocation (main() without CLI arguments) is one action, Hook.     *)
(* The variable out records what the last invocation received and what it  *)
(* handed to its collaborators; prompt_log is a history variable holding   *)
(* every prompt the rapid-prompt detector has recorded.  SpecSteps runs the *)
(* same invocation statement by statement: run holds its position, its     *)
(* local variables and the state document as loaded into memory.           *)
(***************************************************************************)
EXTENDS Integers, Sequences, FiniteSets, TLC

VARIABLES
    agent_sessions,     \* state['agent_sessions']: set of session ids
    session_packs,      \* state['session_packs']: session id -> pack ("" = no key)
    prompt_timestamps,  \* state['prompt_timestamps']: session id -> list of times
    last_played,        \* state['last_played']: category -> file ("" = no key)
    paused,             \* os.path.isfile(PAUSED_FILE)
    cfg,                \* the configuration document, defaults applied
    now,                \* time.time()
    prompt_log,         \* history: session id -> every recorded prompt time
    out,                \* the last hook invocation: its event and its results
    run,                \* the invocation in progress: position, locals, memory
    docs,               \* what config.json and .state.json hold on disk
    installed,          \* packs/<name>/manifest.json: pack name -> its condition
    marker_text,        \* the content of the pause marker file
    cli,                \* the last CLI command and what it printed
    proj,               \* the last project name derived from a cwd
    upd,                \* the update check: its thread, its files, the main path
    peer,               \* a second invocation in progress, while run has the processor
    settings            \* the hooks of settings.json, and what ran on them

vars == <<agent_sessions, session_packs, prompt_timestamps, last_played,
          paused, cfg, now, prompt_log, out, run,
          docs, installed, marker_text, cli, proj, upd, peer, settings>>

\* What neither the hook logic nor an edit of config.json touches.
envVars == <<installed, marker_text, proj, peer, settings>>

stateDoc == <<agent_sessions, session_packs, prompt_timestamps, last_played>>

-----------------------------------------------------------------------------
(* Bounds of the model *)

\* Longest cwd string, in characters.
MaxCwdLen == 3

\* Seconds between two update checks (86400), on the model's clock.
UpdateInterval == 2

\* How often the installer is run.
MaxInstalls == 2

\* Largest value of the clock.
MaxTime == 3

\* Most prompts recorded in a behaviour of Spec.
MaxPrompts == 3

\* Most prompts recorded in a behaviour of SpecTimed.
MaxTimedPrompts == 5

\* annoyed_window_seconds of the configurations explored.
WindowSeconds == 2

\* Program defaults.
DefaultThreshold == 3

-----------------------------------------------------------------------------
(* Inputs *)

Sessions == {"s1", "s2"}

Events == {"SessionStart", "UserPromptSubmit", "Stop", "Notification",
           "PermissionRequest", "SomeOtherEvent"}

NTypes == {"permission_prompt", "idle_prompt", "something_else"}

PermModes == {"default", "delegate"}

\* The categories main() reads a flag for.
Categories == {"greeting", "acknowledge", "complete", "error", "permission",
               "resource_limit", "annoyed"}

agent_modes == {"delegate"}

\* notification_type is read for every event; only Notification looks at it.
NTypesOf(event) ==
    IF event = "Notification" THEN NTypes ELSE {""}

-----------------------------------------------------------------------------
(* Pack manifests: pack -> category -> list of sound files.  A category a  *)
(* manifest does not have reads as the empty list.                         *)

PeonSounds(category) ==
    CASE category = "greeting"   -> <<"Hello1.wav", "Hello2.wav">>
      [] category = "complete"   -> <<"Done1.wav">>
      [] category = "permission" -> <<"Perm1.wav">>
      [] category = "annoyed"    -> <<"Angry1.wav">>
      [] OTHER                   -> <<>>

\* A second pack: two complete entries that name the same file (with
\* different lines), and no other category.
TwinSounds(category) ==
    CASE category = "complete" -> <<"Done1.wav", "Done1.wav">>
      [] OTHER                 -> <<>>

Packs == {"peon", "twin"}

\* manifest.get('categories', {}).get(category, {}).get('sounds', []);
\* a pack without a manifest raises and no sound is picked.
Sounds(pack, category) ==
    CASE pack = "peon" -> PeonSounds(category)
      [] pack = "twin" -> TwinSounds(category)
      [] OTHER         -> <<>>

-----------------------------------------------------------------------------
(* Configurations explored.  disabled holds the categories whose flag is   *)
(* false; every other flag reads true.  Spec explores an installation that *)
(* is switched on (enabled).                                               *)

DefaultConfig ==
    [enabled           |-> TRUE,
     active_pack       |-> "peon",
     pack_rotation     |-> <<>>,
     disabled          |-> {},
     annoyed_threshold |-> DefaultThreshold,
     annoyed_window    |-> WindowSeconds]

Configs ==
    { DefaultConfig,
      [DefaultConfig EXCEPT !.pack_rotation = <<"peon", "twin">>],
      [DefaultConfig EXCEPT !.active_pack = "twin"],
      [DefaultConfig EXCEPT !.disabled = {"greeting", "complete", "annoyed"}] }

\* cat_enabled[c]
CatEnabled(c) == c \notin cfg.disabled

-----------------------------------------------------------------------------
(* Pure steps of main() *)

Range(seq) == { seq[i] : i \in 1..Len(seq) }

\* Mutant: the delegated marker is never recognised.
IsDelegateNever(perm_mode) == FALSE

\* if perm_mode and perm_mode in agent_modes
IsDelegate(perm_mode) == perm_mode # "" /\ perm_mode \in agent_modes

\* Mutant: a recorded agent session is not recognised on its later events.
IsAgentSessionForgotten(session_id) == FALSE

\* elif session_id in agent_sessions
IsAgentSession(session_id) == session_id \in agent_sessions

\* Mutant: an entry whose age equals the window is kept.
PruneTsInclusive(ts, t_now, window) ==
    SelectSeq(ts, LAMBDA t : t_now - t <= window)

\* ts = [t for t in all_ts.get(session_id, []) if now - t < annoyed_window]
PruneTs(ts, t_now, window) == SelectSeq(ts, LAMBDA t : t_now - t < window)

\* ts.append(now)
RecordPrompt(ts, t_now, window) == Append(PruneTs(ts, t_now, window), t_now)

\* Mutant: the list handed back to the state is emptied once annoyed fired.
StoredTsReset(ts, annoyed) == IF annoyed THEN <<>> ELSE ts

\* all_ts[session_id] = ts: the list is stored as it is, also after annoyed
\* has fired.
StoredTs(ts, annoyed) == ts

\* Mutant: annoyed fires only above the threshold.
AnnoyedFiresAbove(ts, threshold) == Len(ts) > threshold

\* if len(ts) >= annoyed_threshold
AnnoyedFires(ts, threshold) == Len(ts) >= threshold

\* The values the routing leaves in category, status, marker, notify,
\* notify_color and the label of msg.
Routed(category, status, marker, notify, notify_color, label) ==
    [noop |-> FALSE, category |-> category, status |-> status,
     marker |-> marker, notify |-> notify, notify_color |-> notify_color,
     label |-> label]

\* sys.exit(0) inside the routing.
NoOp ==
    [noop |-> TRUE, category |-> "", status |-> "", marker |-> "",
     notify |-> FALSE, notify_color |-> "", label |-> ""]

\* marker = '● '
Bullet == "* "

\* Mutant: idle_prompt routed to the complete category.
RouteIdleComplete(event, ntype, annoyed) ==
    CASE event = "SessionStart" -> Routed("greeting", "ready", "", FALSE, "", "")
      [] event = "UserPromptSubmit" ->
            Routed(IF annoyed THEN "annoyed" ELSE "", "working", "", FALSE, "", "")
      [] event = "Stop" ->
            Routed("complete", "done", Bullet, TRUE, "blue", "Task complete")
      [] event = "Notification" /\ ntype = "permission_prompt" ->
            Routed("permission", "needs approval", Bullet, TRUE, "red",
                   "Permission needed")
      [] event = "Notification" /\ ntype = "idle_prompt" ->
            Routed("complete", "done", Bullet, TRUE, "yellow", "Waiting for input")
      [] event = "PermissionRequest" ->
            Routed("permission", "needs approval", Bullet, TRUE, "red",
                   "Permission needed")
      [] OTHER -> NoOp

\* Mutant: an unknown event falls through the routing instead of exiting.
RouteNoExit(event, ntype, annoyed) ==
    CASE event = "SessionStart" -> Routed("greeting", "ready", "", FALSE, "", "")
      [] event = "UserPromptSubmit" ->
            Routed(IF annoyed THEN "annoyed" ELSE "", "working", "", FALSE, "", "")
      [] event = "Stop" ->
            Routed("complete", "done", Bullet, TRUE, "blue", "Task complete")
      [] event = "Notification" /\ ntype = "permission_prompt" ->
            Routed("permission", "needs approval", Bullet, TRUE, "red",
                   "Permission needed")
      [] event = "Notification" /\ ntype = "idle_prompt" ->
            Routed("", "done", Bullet, TRUE, "yellow", "Waiting for input")
      [] event = "PermissionRequest" ->
            Routed("permission", "needs approval", Bullet, TRUE, "red",
                   "Permission needed")
      [] OTHER -> Routed("", "", "", FALSE, "", "")

\* Mutant: Stop routed without marker and notification.
RouteStopSilent(event, ntype, annoyed) ==
    CASE event = "SessionStart" -> Routed("greeting", "ready", "", FALSE, "", "")
      [] event = "UserPromptSubmit" ->
            Routed(IF annoyed THEN "annoyed" ELSE "", "working", "", FALSE, "", "")
      [] event = "Stop" -> Routed("complete", "done", "", FALSE, "", "")
      [] event = "Notification" /\ ntype = "permission_prompt" ->
            Routed("permission", "needs approval", Bullet, TRUE, "red",
                   "Permission needed")
      [] event = "Notification" /\ ntype = "idle_prompt" ->
            Routed("", "done", Bullet, TRUE, "yellow", "Waiting for input")
      [] event = "PermissionRequest" ->
            Routed("permission", "needs approval", Bullet, TRUE, "red",
                   "Permission needed")
      [] OTHER -> NoOp

\* The event routing: the if/elif chain over event and ntype.
Route(event, ntype, annoyed) ==
    CASE event = "SessionStart" -> Routed("greeting", "ready", "", FALSE, "", "")
      [] event = "UserPromptSubmit" ->
            Routed(IF annoyed THEN "annoyed" ELSE "", "working", "", FALSE, "", "")
      [] event = "Stop" ->
            Routed("complete", "done", Bullet, TRUE, "blue", "Task complete")
      [] event = "Notification" /\ ntype = "permission_prompt" ->
            Routed("permission", "needs approval", Bullet, TRUE, "red",
                   "Permission needed")
      [] event = "Notification" /\ ntype = "idle_prompt" ->
            Routed("", "done", Bullet, TRUE, "yellow", "Waiting for input")
      [] event = "PermissionRequest" ->
            Routed("permission", "needs approval", Bullet, TRUE, "red",
                   "Permission needed")
      [] OTHER -> NoOp

\* Mutant: the enabled check is skipped.
EnabledCategoryKeeps(category) == category

\* Mutant: the enabled check with its test inverted.
EnabledCategoryInverted(category) ==
    IF category # "" /\ CatEnabled(category) THEN "" ELSE category

\* if category and not cat_enabled.get(category, True): category = ''
EnabledCategory(category) ==
    IF category # "" /\ ~CatEnabled(category) THEN "" ELSE category

\* last_played.get(category, '')
LastFile(category) ==
    IF category \in DOMAIN last_played THEN last_played[category] ELSE ""

\* Mutant: the pool is the full list, the last file included.
CandidatesAll(sounds, last_file) == sounds

\* candidates = sounds if len(sounds) <= 1 else [s for s in sounds if s['file'] != last_file]
Candidates(sounds, last_file) ==
    IF Len(sounds) <= 1 THEN sounds
    ELSE SelectSeq(sounds, LAMBDA f : f # last_file)

\* The sounds the selector looks at: none when there is no category or the
\* pause marker is present.
SelectorSounds(category, pack) ==
    IF category # "" /\ ~paused THEN Sounds(pack, category) ELSE <<>>

\* random.choice(candidates); on an empty pool it raises, the except
\* swallows it and no sound is picked ("").
PickChoices(candidates) ==
    IF candidates = <<>> THEN {""} ELSE Range(candidates)

\* if notify and not paused and PLATFORM != 'windows': the notification is
\* handed to the notifier, which shows it unless the terminal is focused.
\* Mutant: the pause marker is not looked at.
NotifyDueAlways(notify) == notify

NotifyDue(notify) == notify /\ ~paused

\* The packs the invocation may use for the session, with the session_packs
\* it leaves in memory and whether that marked the state dirty.
\* Mutant: a pack is drawn on every event, whatever the store records.
PackChoicesRedraw(session_id) ==
    IF cfg.pack_rotation = <<>>
    THEN { [pack |-> cfg.active_pack, packs |-> session_packs, dirty |-> FALSE] }
    ELSE { [pack |-> p,
            packs |-> [session_packs EXCEPT ![session_id] = p],
            dirty |-> TRUE] : p \in Range(cfg.pack_rotation) }

\* Mutant: a recorded pack is used without the membership test.
PackChoicesSticky(session_id) ==
    IF cfg.pack_rotation = <<>>
    THEN { [pack |-> cfg.active_pack, packs |-> session_packs, dirty |-> FALSE] }
    ELSE IF session_packs[session_id] # ""
         THEN { [pack |-> session_packs[session_id], packs |-> session_packs,
                 dirty |-> FALSE] }
         ELSE { [pack |-> p,
                 packs |-> [session_packs EXCEPT ![session_id] = p],
                 dirty |-> TRUE] : p \in Range(cfg.pack_rotation) }

\* Mutant: a recorded pack is used although pack_rotation is empty.
PackChoicesStale(session_id) ==
    IF session_packs[session_id] # ""
       /\ (cfg.pack_rotation = <<>>
           \/ session_packs[session_id] \in Range(cfg.pack_rotation))
    THEN { [pack |-> session_packs[session_id], packs |-> session_packs,
            dirty |-> FALSE] }
    ELSE IF cfg.pack_rotation = <<>>
         THEN { [pack |-> cfg.active_pack, packs |-> session_packs,
                 dirty |-> FALSE] }
         ELSE { [pack |-> p,
                 packs |-> [session_packs EXCEPT ![session_id] = p],
                 dirty |-> TRUE] : p \in Range(cfg.pack_rotation) }

\* Mutant: drawing a pack for a session forgets the packs of the others.
PackChoicesInAlone(packs, session_id) ==
    IF cfg.pack_rotation = <<>>
    THEN { [pack |-> cfg.active_pack, packs |-> packs, dirty |-> FALSE] }
    ELSE IF packs[session_id] # ""
            /\ packs[session_id] \in Range(cfg.pack_rotation)
         THEN { [pack |-> packs[session_id], packs |-> packs,
                 dirty |-> FALSE] }
         ELSE { [pack |-> p,
                 packs |-> [s \in DOMAIN packs |->
                              IF s = session_id THEN p ELSE ""],
                 dirty |-> TRUE] : p \in Range(cfg.pack_rotation) }

\* The same for the session_packs an invocation holds in memory.
PackChoicesIn(packs, session_id) ==
    IF cfg.pack_rotation = <<>>
    THEN { [pack |-> cfg.active_pack, packs |-> packs, dirty |-> FALSE] }
    ELSE IF packs[session_id] # ""
            /\ packs[session_id] \in Range(cfg.pack_rotation)
         THEN { [pack |-> packs[session_id], packs |-> packs,
                 dirty |-> FALSE] }
         ELSE { [pack |-> p,
                 packs |-> [packs EXCEPT ![session_id] = p],
                 dirty |-> TRUE] : p \in Range(cfg.pack_rotation) }

PackChoices(session_id) == PackChoicesIn(session_packs, session_id)

\* Mutant: the prompt is recorded whatever the annoyed flag says.
RecordsPromptAlways(event) == event = "UserPromptSubmit"

\* The branch of the routing that records a prompt.
RecordsPrompt(event) == event = "UserPromptSubmit" /\ CatEnabled("annoyed")

\* state_dirty at the write: set by the pack draw, by the recorded prompt
\* and by the pick.
\* Mutant: drawing a pack does not mark the state dirty.
StateDirtyNoPack(drew, records, picked) == records \/ picked

StateDirty(drew, records, picked) == drew \/ records \/ picked

-----------------------------------------------------------------------------
(* One hook invocation *)

\* What an invocation leaves in out.  exit names where main() ended:
\* "disabled", "delegate", "agent", "noop" (the sys.exit(0) calls) or "done".
\* routed is category as the routing set it, category what is left of it
\* after the enabled check, recorded whether the prompt was recorded, last_file what the selector read from
\* last_played ("" also when it did not get that far), sound the file picked.
\* drew tells that a pack was drawn for the session (in memory), wrote counts
\* the writes of the state document, rc is the exit code of the process.
OutRec(event, ntype, session_id, perm_mode, exit, pack, drew, recorded, r, category, last_file, sound, notified, wrote) ==
    [event |-> event, ntype |-> ntype, session_id |-> session_id,
     perm_mode |-> perm_mode, exit |-> exit, pack |-> pack,
     drew |-> drew, recorded |-> recorded,
     rc |-> IF exit \in {"crash", "crash_config", "crash_state"} THEN 1 ELSE 0,
     routed |-> r.category, category |-> category, status |-> r.status,
     marker |-> r.marker, notify |-> r.notify, notify_color |-> r.notify_color,
     label |-> r.label, last_file |-> last_file, sound |-> sound,
     title |-> (exit = "done"), notified |-> notified, wrote |-> wrote]

\* An invocation that ends before routing hands nothing to a collaborator.
Quiet(event, ntype, session_id, perm_mode, exit, wrote) ==
    OutRec(event, ntype, session_id, perm_mode, exit, "", FALSE, FALSE, NoOp,
           "", "", "", FALSE, wrote)

\* if str(cfg.get('enabled', True)).lower() == 'false': sys.exit(0)
HookDisabled(event, ntype, session_id, perm_mode) ==
    /\ out' = Quiet(event, ntype, session_id, perm_mode, "disabled", 0)
    /\ UNCHANGED <<stateDoc, prompt_log>>

\* Mutant: the delegated session replaces the recorded ones.
HookDelegateReplace(event, ntype, session_id, perm_mode) ==
    /\ agent_sessions' = {session_id}
    /\ out' = Quiet(event, ntype, session_id, perm_mode, "delegate", 1)
    /\ UNCHANGED <<session_packs, prompt_timestamps, last_played, prompt_log>>

\* The delegated marker: the session is recorded, the state is written and
\* the invocation ends.
HookDelegate(event, ntype, session_id, perm_mode) ==
    /\ agent_sessions' = agent_sessions \cup {session_id}
    /\ out' = Quiet(event, ntype, session_id, perm_mode, "delegate", 1)
    /\ UNCHANGED <<session_packs, prompt_timestamps, last_played, prompt_log>>

\* A session already in agent_sessions: the invocation ends, nothing written.
HookAgent(event, ntype, session_id, perm_mode) ==
    /\ out' = Quiet(event, ntype, session_id, perm_mode, "agent", 0)
    /\ UNCHANGED <<stateDoc, prompt_log>>

\* Pack rotation, routing, sound selection, the single state write and the
\* hand-off to the collaborators.
HookRouted(event, ntype, session_id, perm_mode) ==
    \E pc \in PackChoices(session_id) :
      LET records == RecordsPrompt(event)
          ts      == RecordPrompt(prompt_timestamps[session_id], now,
                                  cfg.annoyed_window)
          annoyed == records /\ AnnoyedFires(ts, cfg.annoyed_threshold)
          r       == Route(event, ntype, annoyed)
      IN
      IF r.noop
      THEN \* sys.exit(0) before the write: what was changed in memory is lost
           /\ out' = OutRec(event, ntype, session_id, perm_mode, "noop",
                            pc.pack, pc.dirty, FALSE, r, "", "", "", FALSE, 0)
           /\ UNCHANGED <<stateDoc, prompt_log>>
      ELSE
        LET category   == EnabledCategory(r.category)
            sounds     == SelectorSounds(category, pc.pack)
            last_file  == IF sounds = <<>> THEN "" ELSE LastFile(category)
            candidates == IF sounds = <<>> THEN <<>>
                          ELSE Candidates(sounds, last_file)
        IN
        \E pick \in PickChoices(candidates) :
          LET dirty == StateDirty(pc.dirty, records, pick # "")
              notified == NotifyDue(r.notify)
              \* the state document as it is in memory after the selection
              mem_ts == IF records
                        THEN [prompt_timestamps EXCEPT
                                ![session_id] = StoredTs(ts, annoyed)]
                        ELSE prompt_timestamps
              mem_lp == IF pick # ""
                        THEN [last_played EXCEPT ![category] = pick]
                        ELSE last_played
          IN
          \* if state_dirty: json.dump(state, open(STATE, 'w'))
          /\ session_packs' = IF dirty THEN pc.packs ELSE session_packs
          /\ prompt_timestamps' = IF dirty THEN mem_ts ELSE prompt_timestamps
          /\ prompt_log' =
                IF records
                THEN [prompt_log EXCEPT ![session_id] = Append(@, now)]
                ELSE prompt_log
          /\ last_played' = IF dirty THEN mem_lp ELSE last_played
          /\ agent_sessions' = agent_sessions
          /\ out' = OutRec(event, ntype, session_id, perm_mode, "done",
                           pc.pack, pc.dirty, records, r, category,
                           last_file, pick, notified,
                           IF dirty THEN 1 ELSE 0)

\* The hook logic of main() on one event descriptor.
HookLogic(event, ntype, session_id, perm_mode) ==
    /\ IF ~cfg.enabled
       THEN HookDisabled(event, ntype, session_id, perm_mode)
       ELSE IF IsDelegate(perm_mode)
       THEN HookDelegate(event, ntype, session_id, perm_mode)
       ELSE IF IsAgentSession(session_id)
       THEN HookAgent(event, ntype, session_id, perm_mode)
       ELSE HookRouted(event, ntype, session_id, perm_mode)
    /\ docs' = IF out'.wrote = 1 THEN [docs EXCEPT !.state = "object"] ELSE docs
    /\ UNCHANGED <<paused, cfg, now, run, envVars>>

\* main() without CLI arguments, on one event descriptor.
Hook(event, ntype, session_id, perm_mode) ==
    /\ HookLogic(event, ntype, session_id, perm_mode)
    /\ UNCHANGED <<cli, upd>>

\* Time passes between invocations.
Tick ==
    /\ now < MaxTime
    /\ now' = now + 1
    /\ UNCHANGED <<stateDoc, paused, cfg, prompt_log, out, run, docs, envVars, cli, upd>>

-----------------------------------------------------------------------------
(* Specifications *)

-----------------------------------------------------------------------------
(* One hook invocation, statement by statement *)

\* What stdin can hold.
StdinKinds == {"empty", "whitespace", "garbage", "nonobject", "object"}

\* not input_data.strip()
IsBlank(kind) == kind \in {"empty", "whitespace"}

\* json.loads(input_data) returns a value
Parses(kind) == kind \in {"nonobject", "object"}

\* event_data has a get method: the JSON value is an object
HasGet(kind) == kind = "object"

\* The state document as main() holds it in memory.
Loaded ==
    [agent_sessions    |-> agent_sessions,
     session_packs     |-> session_packs,
     prompt_timestamps |-> prompt_timestamps,
     last_played       |-> last_played]

\* No invocation in progress.
Idle ==
    [pc |-> "idle", kind |-> "", event |-> "", ntype |-> "",
     session_id |-> "", perm_mode |-> "",
     mem |-> [agent_sessions    |-> {},
              session_packs     |-> [s \in Sessions |-> ""],
              prompt_timestamps |-> [s \in Sessions |-> <<>>],
              last_played       |-> [c \in Categories |-> ""]],
     state_dirty |-> FALSE, writes |-> 0, active_pack |-> "",
     drew |-> FALSE, recorded |-> FALSE, r |-> NoOp, category |-> "",
     last_file |-> "", sound |-> "", trace |-> <<>>,
     loaded |-> [agent_sessions    |-> {},
                 session_packs     |-> [s \in Sessions |-> ""],
                 prompt_timestamps |-> [s \in Sessions |-> <<>>],
                 last_played       |-> [c \in Categories |-> ""]]]

\* The steps of the invocation so far, with one more.
Did(step) == Append(run.trace, step)

\* Between invocations; the steps of the last one stay on record.
Ended(trace) == [Idle EXCEPT !.trace = trace]

\* json.dump(state, open(STATE, 'w'))
WriteState(mem) ==
    /\ docs' = [docs EXCEPT !.state = "object"]
    /\ agent_sessions' = mem.agent_sessions
    /\ session_packs' = mem.session_packs
    /\ prompt_timestamps' = mem.prompt_timestamps
    /\ last_played' = mem.last_played

\* The invocation ends: sys.exit or the end of main().
Exit(step, result) ==
    /\ out' = result
    /\ run' = Ended(Did(step))

\* stdin is read and parsed, configuration and state are loaded.
ReadStdin(kind, event, ntype, session_id, perm_mode) ==
    /\ run.pc = "idle"
    /\ IF IsBlank(kind)
       THEN /\ out' = Quiet("", "", "", "", "blank", 0)
            /\ run' = Idle
       ELSE IF ~cfg.enabled
       THEN /\ out' = Quiet("", "", "", "", "disabled", 0)
            /\ run' = Idle
       ELSE IF ~Parses(kind)
       THEN \* except json.JSONDecodeError: sys.exit(0)
            /\ out' = Quiet("", "", "", "", "unparsed", 0)
            /\ run' = Idle
       ELSE IF ~HasGet(kind)
       THEN \* event_data.get raises AttributeError, which nothing catches
            /\ out' = Quiet("", "", "", "", "crash", 0)
            /\ run' = Idle
       ELSE /\ run' = [Idle EXCEPT !.pc = "detect", !.kind = kind,
                                   !.event = event, !.ntype = ntype,
                                   !.session_id = session_id,
                                   !.perm_mode = perm_mode, !.mem = Loaded,
                                   !.loaded = Loaded]
            /\ out' = out
    /\ UNCHANGED <<stateDoc, paused, cfg, now, prompt_log, docs, envVars, cli, upd>>

\* Agent detection.
Detect ==
    /\ run.pc = "detect"
    /\ IF IsDelegate(run.perm_mode)
       THEN LET mem == [run.mem EXCEPT
                          !.agent_sessions = @ \cup {run.session_id}]
            IN
            /\ WriteState(mem)
            /\ out' = Quiet(run.event, run.ntype, run.session_id,
                            run.perm_mode, "delegate", run.writes + 1)
            /\ run' = Ended(Did("detect") \o <<"write">>)
       ELSE IF run.session_id \in run.mem.agent_sessions
       THEN /\ Exit("detect", Quiet(run.event, run.ntype, run.session_id,
                                    run.perm_mode, "agent", 0))
            /\ UNCHANGED <<stateDoc, docs>>
       ELSE /\ run' = [run EXCEPT !.pc = "rotate", !.trace = Did("detect")]
            /\ UNCHANGED <<stateDoc, docs, out>>
    /\ UNCHANGED <<paused, cfg, now, prompt_log, envVars, cli, upd>>

\* Mutant: the state document is written as soon as a pack is drawn.
RotateWriting ==
    /\ run.pc = "rotate"
    /\ \E pc \in PackChoicesIn(run.mem.session_packs, run.session_id) :
          LET mem == [run.mem EXCEPT !.session_packs = pc.packs] IN
          /\ run' = [run EXCEPT !.pc = "route", !.active_pack = pc.pack,
                                !.mem = mem, !.drew = pc.dirty,
                                !.state_dirty = pc.dirty,
                                !.writes = IF pc.dirty THEN @ + 1 ELSE @,
                                !.trace = Did("rotate")]
          /\ IF pc.dirty THEN WriteState(mem) ELSE UNCHANGED <<stateDoc, docs>>
    /\ UNCHANGED <<paused, cfg, now, prompt_log, out, envVars, cli, upd>>

\* Pack rotation.
Rotate ==
    /\ run.pc = "rotate"
    /\ \E pc \in PackChoicesIn(run.mem.session_packs, run.session_id) :
          run' = [run EXCEPT !.pc = "route", !.active_pack = pc.pack,
                             !.mem.session_packs = pc.packs,
                             !.drew = pc.dirty, !.state_dirty = pc.dirty,
                             !.trace = Did("rotate")]
    /\ UNCHANGED <<stateDoc, paused, cfg, now, prompt_log, out, docs, envVars, cli, upd>>

\* Event routing, with the rapid-prompt detector on UserPromptSubmit.
RouteStep ==
    /\ run.pc = "route"
    /\ LET records == RecordsPrompt(run.event)
           ts      == RecordPrompt(run.mem.prompt_timestamps[run.session_id],
                                   now, cfg.annoyed_window)
           annoyed == records /\ AnnoyedFires(ts, cfg.annoyed_threshold)
           r       == Route(run.event, run.ntype, annoyed)
       IN
       IF r.noop
       THEN /\ Exit("route",
                    OutRec(run.event, run.ntype, run.session_id,
                           run.perm_mode, "noop", run.active_pack, run.drew,
                           FALSE, r, "", "", "", FALSE, run.writes))
            /\ UNCHANGED prompt_log
       ELSE /\ run' = [run EXCEPT
                         !.pc = "select", !.r = r, !.recorded = records,
                         !.trace = Did("route"),
                         !.state_dirty = @ \/ records,
                         !.mem.prompt_timestamps[run.session_id] =
                             IF records THEN StoredTs(ts, annoyed) ELSE @]
            /\ prompt_log' =
                  IF records
                  THEN [prompt_log EXCEPT ![run.session_id] = Append(@, now)]
                  ELSE prompt_log
            /\ out' = out
    /\ UNCHANGED <<stateDoc, paused, cfg, now, docs, envVars, cli, upd>>

\* The enabled check and the sound selection.
Select ==
    /\ run.pc = "select"
    /\ LET category   == EnabledCategory(run.r.category)
           sounds     == SelectorSounds(category, run.active_pack)
           last_file  == IF sounds = <<>> THEN ""
                         ELSE run.mem.last_played[category]
           candidates == IF sounds = <<>> THEN <<>>
                         ELSE Candidates(sounds, last_file)
       IN
       \E pick \in PickChoices(candidates) :
          run' = [run EXCEPT
                    !.pc = "write", !.category = category,
                    !.trace = Did("select"),
                    !.last_file = last_file, !.sound = pick,
                    !.state_dirty = StateDirty(run.drew, run.recorded,
                                               pick # ""),
                    !.mem.last_played =
                        IF pick # "" THEN [@ EXCEPT ![category] = pick]
                        ELSE @]
    /\ UNCHANGED <<stateDoc, paused, cfg, now, prompt_log, out, docs, envVars, cli, upd>>

\* Mutant: the state document is left for the end of main().
WriteStepDeferred ==
    /\ run.pc = "write"
    /\ run' = [run EXCEPT !.pc = "emit"]
    /\ UNCHANGED <<stateDoc, docs>>
    /\ UNCHANGED <<paused, cfg, now, prompt_log, out, envVars, cli, upd>>

\* Mutant: the write merges what is in memory into what is on disk.
WriteStepMerging ==
    /\ run.pc = "write"
    /\ IF run.state_dirty
       THEN /\ docs' = [docs EXCEPT !.state = "object"]
            /\ agent_sessions' = agent_sessions \cup run.mem.agent_sessions
            /\ session_packs' =
                  [s \in Sessions |-> IF s = run.session_id
                                      THEN run.mem.session_packs[s]
                                      ELSE session_packs[s]]
            /\ prompt_timestamps' =
                  [s \in Sessions |-> IF s = run.session_id
                                      THEN run.mem.prompt_timestamps[s]
                                      ELSE prompt_timestamps[s]]
            /\ last_played' = run.mem.last_played
            /\ run' = [run EXCEPT !.pc = "emit", !.writes = @ + 1,
                                  !.trace = Did("write")]
       ELSE /\ run' = [run EXCEPT !.pc = "emit"]
            /\ UNCHANGED <<stateDoc, docs>>
    /\ UNCHANGED <<paused, cfg, now, prompt_log, out, envVars, cli, upd>>

\* if state_dirty: json.dump(state, open(STATE, 'w'))
WriteStep ==
    /\ run.pc = "write"
    /\ IF run.state_dirty
       THEN /\ WriteState(run.mem)
            /\ run' = [run EXCEPT !.pc = "emit", !.writes = @ + 1,
                                  !.trace = Did("write")]
       ELSE /\ run' = [run EXCEPT !.pc = "emit"]
            /\ UNCHANGED <<stateDoc, docs>>
    /\ UNCHANGED <<paused, cfg, now, prompt_log, out, envVars, cli, upd>>

\* The write as the file system sees it.  open(STATE, 'w') truncates the
\* file: until json.dump has written, the document is empty, which a reader
\* loads as {}.
OpenState ==
    /\ run.pc = "write"
    /\ IF run.state_dirty
       THEN /\ docs' = [docs EXCEPT !.state = "garbage"]
            /\ agent_sessions' = {}
            /\ session_packs' = [s \in Sessions |-> ""]
            /\ prompt_timestamps' = [s \in Sessions |-> <<>>]
            /\ last_played' = [c \in Categories |-> ""]
            /\ run' = [run EXCEPT !.pc = "dump"]
       ELSE /\ run' = [run EXCEPT !.pc = "emit"]
            /\ UNCHANGED <<stateDoc, docs>>
    /\ UNCHANGED <<paused, cfg, now, prompt_log, out, envVars, cli, upd>>

\* json.dump(state, f): the new document is in the file.
DumpState ==
    /\ run.pc = "dump"
    /\ WriteState(run.mem)
    /\ run' = [run EXCEPT !.pc = "emit", !.writes = @ + 1,
                          !.trace = Did("write")]
    /\ UNCHANGED <<paused, cfg, now, prompt_log, out, envVars, cli, upd>>

\* Two hook processes at once: the one in run is taken off the processor
\* and the other one goes on from where it stood.
Switch ==
    /\ run' = peer
    /\ peer' = run
    /\ run # peer
    /\ UNCHANGED <<stateDoc, paused, cfg, now, prompt_log, out, docs,
                   installed, marker_text, proj, cli, upd, settings>>

\* The process is stopped from outside, wherever it stands.
Kill ==
    /\ run.pc # "idle"
    /\ run' = Ended(run.trace)
    /\ UNCHANGED <<stateDoc, paused, cfg, now, prompt_log, out, docs, envVars, cli, upd>>

\* sys.stdout.write(f'\033]0;{title}\007')
Emit ==
    /\ run.pc = "emit"
    /\ run' = [run EXCEPT !.pc = "play", !.trace = Did("title")]
    /\ UNCHANGED <<stateDoc, paused, cfg, now, prompt_log, out, docs, envVars, cli, upd>>

\* if sound_file and os.path.isfile(sound_file): play_sound(...)
Play ==
    /\ run.pc = "play"
    /\ run' = [run EXCEPT !.pc = "notify",
                          !.trace = IF run.sound # "" THEN Did("sound") ELSE @]
    /\ UNCHANGED <<stateDoc, paused, cfg, now, prompt_log, out, docs, envVars, cli, upd>>

\* if notify and not paused: send_notification(...); then the end of main().
Notify ==
    /\ run.pc = "notify"
    /\ out' = OutRec(run.event, run.ntype, run.session_id, run.perm_mode,
                     "done", run.active_pack, run.drew, run.recorded, run.r,
                     run.category, run.last_file, run.sound,
                     NotifyDue(run.r.notify), run.writes)
    /\ run' = Ended(IF NotifyDue(run.r.notify) THEN Did("notification")
                    ELSE run.trace)
    /\ UNCHANGED <<stateDoc, paused, cfg, now, prompt_log, docs, envVars, cli, upd>>

-----------------------------------------------------------------------------
(* main() without CLI arguments, on any stdin and any pair of documents *)

\* What a document on disk can hold: a JSON object; nothing (missing or
\* unreadable); text that is no JSON; JSON that is no object ([], 42, null);
\* an object with a field of another shape ({"categories": []},
\* {"agent_sessions": 5}).
DocKinds == {"object", "missing", "garbage", "nonobject", "misshaped"}

\* The invocation ends without touching anything.
Ends(event, ntype, session_id, perm_mode, exit) ==
    /\ out' = Quiet(event, ntype, session_id, perm_mode, exit, 0)
    /\ UNCHANGED <<stateDoc, prompt_log, paused, cfg, now, run, docs, envVars>>

\* Mutant: the enabled flag is looked at after the event is parsed.
MainLogicEnabledLate(kind, event, ntype, session_id, perm_mode) ==
    IF IsBlank(kind)
    THEN Ends("", "", "", "", "blank")
    ELSE IF docs.config = "nonobject"
    THEN Ends("", "", "", "", "crash_config")
    ELSE IF docs.config = "misshaped"
    THEN Ends("", "", "", "", "crash_config")
    ELSE IF ~Parses(kind)
    THEN Ends("", "", "", "", "unparsed")
    ELSE IF ~HasGet(kind)
    THEN Ends("", "", "", "", "crash")
    ELSE IF ~cfg.enabled
    THEN Ends("", "", "", "", "disabled")
    ELSE IF docs.state \in {"nonobject", "misshaped"}
    THEN Ends(event, ntype, session_id, perm_mode, "crash_state")
    ELSE HookLogic(event, ntype, session_id, perm_mode)

\* main() past the CLI dispatch: stdin, configuration, event, state, then
\* the hook logic.
MainLogic(kind, event, ntype, session_id, perm_mode) ==
    IF IsBlank(kind)
    THEN Ends("", "", "", "", "blank")
    ELSE IF docs.config = "nonobject"
    THEN \* cfg.get('enabled', True) raises AttributeError
         Ends("", "", "", "", "crash_config")
    ELSE IF ~cfg.enabled
    THEN Ends("", "", "", "", "disabled")
    ELSE IF docs.config = "misshaped"
    THEN \* cats.get(c, True) raises AttributeError
         Ends("", "", "", "", "crash_config")
    ELSE IF ~Parses(kind)
    THEN Ends("", "", "", "", "unparsed")
    ELSE IF ~HasGet(kind)
    THEN Ends("", "", "", "", "crash")
    ELSE IF docs.state \in {"nonobject", "misshaped"}
    THEN \* state.get / set(...) raises
         Ends(event, ntype, session_id, perm_mode, "crash_state")
    ELSE HookLogic(event, ntype, session_id, perm_mode)

\* main() without CLI arguments.
Main(kind, event, ntype, session_id, perm_mode) ==
    /\ MainLogic(kind, event, ntype, session_id, perm_mode)
    /\ UNCHANGED <<cli, upd>>

-----------------------------------------------------------------------------
(* CLI subcommands *)

\* The pack directories that can exist, in the order sorted() gives them.
PackOrder == <<"alpha", "peon", "twin">>

\* sorted(basename(dirname(m)) for m in glob(packs/*/manifest.json)): every
\* pack directory that holds a manifest.json, readable or not.
Names == SelectSeq(PackOrder, LAMBDA p : installed[p] # "none")

\* names.index(active); 0 when it raises ValueError.
Index(names, active) ==
    IF \E i \in 1..Len(names) : names[i] = active
    THEN CHOOSE i \in 1..Len(names) :
            names[i] = active /\ \A j \in 1..(i - 1) : names[j] # active
    ELSE 0

\* What a command leaves on the terminal, with what it was called on.
CliRec(cmd, arg, rc, stdout, stderr, read_stdin) ==
    LET cycling  == cmd.dashes = 2 /\ cmd.word = "pack" /\ arg = <<>>
        \* the command before was `--pack` too, and the round is not over
        carry_on == /\ cycling
                    /\ cli.cmd = cmd /\ cli.arg = arg
                    /\ cli.cycles > 0 /\ cli.cycles < Len(Names)
    IN
    [cmd |-> cmd, arg |-> arg, again |-> (cli.cmd = cmd /\ cli.arg = arg),
     rc |-> rc, stdout |-> stdout, stderr |-> stderr,
     read_stdin |-> read_stdin, was_paused |-> paused,
     \* history: active_pack before a round of `--pack`, and its length
     cycle_start |-> IF ~cycling THEN ""
                     ELSE IF carry_on THEN cli.cycle_start
                     ELSE cfg.active_pack,
     cycles |-> IF ~cycling \/ Names = <<>> \/ docs.config = "nonobject"
                THEN 0
                ELSE IF carry_on THEN cli.cycles + 1 ELSE 1]

\* open(PAUSED_FILE, 'w').close()
cmd_pause(cmd) ==
    /\ paused' = TRUE
    /\ marker_text' = ""
    /\ cli' = CliRec(cmd, <<>>, 0, "peon-ping: sounds paused", <<>>, FALSE)

\* os.remove(PAUSED_FILE), a missing file being ignored
cmd_resume(cmd) ==
    /\ paused' = FALSE
    /\ marker_text' = ""
    /\ cli' = CliRec(cmd, <<>>, 0, "peon-ping: sounds resumed", <<>>, FALSE)

\* Mutant: toggle always pauses.
cmd_toggle_pauses(cmd) == cmd_pause(cmd)

cmd_toggle(cmd) == IF paused THEN cmd_resume(cmd) ELSE cmd_pause(cmd)

cmd_status(cmd) ==
    /\ cli' = CliRec(cmd, <<>>, 0,
                     IF paused THEN "peon-ping: paused"
                     ELSE "peon-ping: active", <<>>, FALSE)
    /\ UNCHANGED <<paused, marker_text>>

\* Every manifest is loaded without a handler: an unreadable one ends the
\* listing with a traceback.
cmd_packs(cmd) ==
    /\ cli' = IF \E i \in 1..Len(Names) : installed[Names[i]] = "corrupt"
              THEN CliRec(cmd, <<>>, 1, "", <<"Traceback">>, FALSE)
              ELSE CliRec(cmd, <<>>, 0, "packs", <<>>, FALSE)
    /\ UNCHANGED <<paused, marker_text>>

cmd_help(cmd) ==
    /\ cli' = CliRec(cmd, <<>>, 0, "Usage: peon <command>", <<>>, FALSE)
    /\ UNCHANGED <<paused, marker_text>>

\* print(f"Unknown option: {cmd}", file=sys.stderr); sys.exit(1)
UnknownOption(cmd) ==
    /\ cli' = CliRec(cmd, <<>>, 1, "",
                     <<"Unknown option", "Run 'peon --help' for usage.">>,
                     FALSE)
    /\ UNCHANGED <<paused, marker_text>>

\* cfg['active_pack'] = next_pack; json.dump(cfg, open(CONFIG, 'w'));
\* then the display name is read from the manifest, without a handler.
SwitchTo(cmd, arg, next_pack) ==
    IF docs.config = "nonobject"
    THEN \* item assignment on a list, number or None raises TypeError
         /\ cli' = CliRec(cmd, arg, 1, "", <<"Traceback">>, FALSE)
         /\ UNCHANGED <<cfg, docs>>
    ELSE /\ cfg' = [cfg EXCEPT !.active_pack = next_pack]
         /\ docs' = [docs EXCEPT !.config =
                       IF @ \in {"missing", "garbage"} THEN "object" ELSE @]
         /\ cli' = IF installed[next_pack] = "corrupt"
                   THEN CliRec(cmd, arg, 1, "", <<"Traceback">>, FALSE)
                   ELSE CliRec(cmd, arg, 0, "peon-ping: switched to", <<>>,
                               FALSE)

\* Mutant: the pack name is taken without being looked up.
cmd_pack_unchecked(cmd, arg) ==
    /\ IF Names = <<>>
       THEN /\ cli' = CliRec(cmd, arg, 1, "", <<"Error: no packs found">>, FALSE)
            /\ UNCHANGED <<cfg, docs>>
       ELSE IF arg = <<>>
       THEN IF docs.config = "nonobject"
            THEN /\ cli' = CliRec(cmd, arg, 1, "", <<"Traceback">>, FALSE)
                 /\ UNCHANGED <<cfg, docs>>
            ELSE LET idx == Index(Names, cfg.active_pack) IN
                 SwitchTo(cmd, arg,
                          IF idx = 0 THEN Names[1]
                          ELSE Names[(idx % Len(Names)) + 1])
       ELSE /\ cfg' = [cfg EXCEPT !.active_pack = arg[1]]
            /\ docs' = docs
            /\ cli' = CliRec(cmd, arg, 0, "peon-ping: switched to", <<>>, FALSE)
    /\ UNCHANGED <<paused, marker_text>>

\* Mutant: cycling stops at the last pack instead of wrapping.
cmd_pack_nowrap(cmd, arg) ==
    /\ IF Names = <<>>
       THEN /\ cli' = CliRec(cmd, arg, 1, "", <<"Error: no packs found">>, FALSE)
            /\ UNCHANGED <<cfg, docs>>
       ELSE IF arg = <<>>
       THEN IF docs.config = "nonobject"
            THEN /\ cli' = CliRec(cmd, arg, 1, "", <<"Traceback">>, FALSE)
                 /\ UNCHANGED <<cfg, docs>>
            ELSE LET idx == Index(Names, cfg.active_pack) IN
                 SwitchTo(cmd, arg,
                          IF idx = 0 THEN Names[1]
                          ELSE IF idx = Len(Names) THEN Names[idx]
                          ELSE Names[idx + 1])
       ELSE IF \A i \in 1..Len(Names) : Names[i] # arg[1]
       THEN /\ cli' = CliRec(cmd, arg, 1, "",
                             <<"Error: pack not found", "Available packs">>,
                             FALSE)
            /\ UNCHANGED <<cfg, docs>>
       ELSE SwitchTo(cmd, arg, arg[1])
    /\ UNCHANGED <<paused, marker_text>>

\* arg is <<>> for `--pack` and <<name>> for `--pack name`.
cmd_pack(cmd, arg) ==
    /\ IF Names = <<>>
       THEN /\ cli' = CliRec(cmd, arg, 1, "", <<"Error: no packs found">>, FALSE)
            /\ UNCHANGED <<cfg, docs>>
       ELSE IF arg = <<>>
       THEN IF docs.config = "nonobject"
            THEN \* cfg.get('active_pack', 'peon') raises AttributeError
                 /\ cli' = CliRec(cmd, arg, 1, "", <<"Traceback">>, FALSE)
                 /\ UNCHANGED <<cfg, docs>>
            ELSE LET idx == Index(Names, cfg.active_pack) IN
                 SwitchTo(cmd, arg,
                          IF idx = 0 THEN Names[1]
                          ELSE Names[(idx % Len(Names)) + 1])
       ELSE IF \A i \in 1..Len(Names) : Names[i] # arg[1]
       THEN /\ cli' = CliRec(cmd, arg, 1, "",
                             <<"Error: pack not found", "Available packs">>,
                             FALSE)
            /\ UNCHANGED <<cfg, docs>>
       ELSE SwitchTo(cmd, arg, arg[1])
    /\ UNCHANGED <<paused, marker_text>>

\* cmd.startswith('--')
StartsWithDashes(cmd) == cmd.dashes >= 2

\* What no CLI subcommand touches.
hookVars == <<stateDoc, prompt_log, now, out, run, installed, proj, upd, peer, settings>>

\* main() with CLI arguments: the command is dispatched before stdin is
\* read; an argument that is no command and does not start with '--' is
\* ignored and the hook logic runs on stdin.
Cli(cmd, arg, kind, event, session_id, perm_mode) ==
    IF cmd.dashes = 2 /\ cmd.word = "pause"
    THEN cmd_pause(cmd) /\ UNCHANGED <<hookVars, cfg, docs>>
    ELSE IF cmd.dashes = 2 /\ cmd.word = "resume"
    THEN cmd_resume(cmd) /\ UNCHANGED <<hookVars, cfg, docs>>
    ELSE IF cmd.dashes = 2 /\ cmd.word = "toggle"
    THEN cmd_toggle(cmd) /\ UNCHANGED <<hookVars, cfg, docs>>
    ELSE IF cmd.dashes = 2 /\ cmd.word = "status"
    THEN cmd_status(cmd) /\ UNCHANGED <<hookVars, cfg, docs>>
    ELSE IF cmd.dashes = 2 /\ cmd.word = "packs"
    THEN cmd_packs(cmd) /\ UNCHANGED <<hookVars, cfg, docs>>
    ELSE IF cmd.dashes = 2 /\ cmd.word = "pack"
    THEN cmd_pack(cmd, arg) /\ UNCHANGED hookVars
    ELSE IF (cmd.dashes = 2 /\ cmd.word = "help")
            \/ (cmd.dashes = 1 /\ cmd.word = "h")
    THEN cmd_help(cmd) /\ UNCHANGED <<hookVars, cfg, docs>>
    ELSE IF StartsWithDashes(cmd)
    THEN UnknownOption(cmd) /\ UNCHANGED <<hookVars, cfg, docs>>
    ELSE /\ MainLogic(kind, event, "", session_id, perm_mode)
         /\ cli' = CliRec(cmd, arg, out'.rc, "", <<>>, TRUE)
         /\ UNCHANGED upd

-----------------------------------------------------------------------------
(* Project name extraction *)

\* A string is a sequence of characters.  The characters of a cwd: a letter,
\* a hyphen, the two separators and a character the pattern removes.
CwdChars == {"a", "-", "/", "\\", "!"}

\* [a-zA-Z0-9 ._-], as far as the characters of the model go.
AllowedChars == {"a", "c", "d", "e", "l", "u", "-", ".", "_", " "}

\* The literal 'claude'.
Claude == <<"c", "l", "a", "u", "d", "e">>

\* os.path is posixpath or ntpath, by the platform the interpreter runs on.
Platforms == {"posix", "nt"}

\* The separators os.path.basename splits on.
Separators(platform) == IF platform = "nt" THEN {"/", "\\"} ELSE {"/"}

\* os.path.basename(path): what follows the last separator.
RECURSIVE basename(_, _)
basename(platform, path) ==
    IF path = <<>> THEN <<>>
    ELSE IF path[Len(path)] \in Separators(platform) THEN <<>>
    ELSE Append(basename(platform, SubSeq(path, 1, Len(path) - 1)),
                path[Len(path)])

\* re.sub(r'[^a-zA-Z0-9 ._-]', '', name)
Strip(name) == SelectSeq(name, LAMBDA ch : ch \in AllowedChars)

\* Mutant: the pattern is applied to the whole cwd.
extract_project_name_whole(platform, cwd) ==
    IF cwd = <<>> THEN Claude
    ELSE IF Strip(cwd) = <<>> THEN Claude ELSE Strip(cwd)

extract_project_name(platform, cwd) ==
    IF cwd = <<>> THEN Claude
    ELSE LET name == basename(platform, cwd) IN
         IF name = <<>> THEN Claude
         ELSE IF Strip(name) = <<>> THEN Claude ELSE Strip(name)

\* project = extract_project_name(cwd)
ProjectName(platform, cwd) ==
    /\ proj' = [platform |-> platform, cwd |-> cwd,
                name |-> extract_project_name(platform, cwd)]
    /\ UNCHANGED <<stateDoc, paused, cfg, now, prompt_log, out, run, docs,
                   installed, marker_text, cli, upd, peer, settings>>

-----------------------------------------------------------------------------
(* Update check *)

\* Where the thread of check_for_updates stands while it runs.
Running == {"started", "fetch", "flag"}

\* now - last_check > 86400.  A missing or unparsable file reads as 0, which
\* time.time() is always more than a day past.
Stale == upd.last_check < 0 \/ now - upd.last_check > UpdateInterval

\* The thread ends; outcome says how.
Finish(outcome) == [upd EXCEPT !.thread = "done", !.outcome = outcome]

\* main() from stdin to the start of the thread: everything the invocation
\* will emit is decided, and .state.json is written.  An invocation that
\* left through sys.exit is over; one that did not starts the thread for
\* SessionStart and goes on to the notices.
Invoke(event, session_id, perm_mode) ==
    /\ upd.main = "idle"
    /\ HookLogic(event, "", session_id, perm_mode)
    /\ upd' = IF out'.exit # "done"
              THEN [upd EXCEPT !.thread = "none", !.outcome = "", !.remote = "",
                               !.notice = FALSE]
              ELSE [upd EXCEPT !.main = "emit", !.remote = "",
                               !.thread = IF event = "SessionStart"
                                          THEN "started" ELSE "none",
                               !.outcome = "", !.notice = FALSE]
    /\ UNCHANGED cli

\* The update notice, then title, sound and notification as decided.
EmitAll ==
    /\ upd.main = "emit"
    /\ upd' = [upd EXCEPT !.main = "sleep",
                          !.notice = (out.event = "SessionStart" /\ upd.flag # "")]
    /\ UNCHANGED <<stateDoc, paused, cfg, now, prompt_log, out, run, docs, envVars, cli>>

\* Mutant: the main path joins the thread.
ProcessExitJoins ==
    /\ upd.main = "sleep"
    /\ upd.thread \notin Running
    /\ upd' = [upd EXCEPT !.main = "idle"]
    /\ UNCHANGED <<stateDoc, paused, cfg, now, prompt_log, out, run, docs, envVars, cli>>

\* time.sleep(0.1), then the end of main(): a daemon thread that is still
\* running ends with the process.
ProcessExit ==
    /\ upd.main = "sleep"
    /\ upd' = [upd EXCEPT !.main = "idle",
                          !.thread = IF upd.thread \in Running
                                     THEN "done" ELSE upd.thread,
                          !.outcome = IF upd.thread \in Running
                                      THEN "killed" ELSE upd.outcome]
    /\ UNCHANGED <<stateDoc, paused, cfg, now, prompt_log, out, run, docs, envVars, cli>>

\* Mutant: the time stamp is left for after the fetch.
CheckStampLate ==
    /\ upd.main # "idle"
    /\ upd.thread = "started"
    /\ \/ ~Stale /\ upd' = Finish("throttled")
       \/ Stale  /\ upd' = [upd EXCEPT !.thread = "fetch"]
       \/ Stale  /\ upd' = Finish("io_failure")
    /\ UNCHANGED <<stateDoc, paused, cfg, now, prompt_log, out, run, docs, envVars, cli>>

\* check_for_updates up to the time stamp: nothing to do within a day of
\* the last check; otherwise the stamp is written, or writing it fails.
CheckStamp ==
    /\ upd.main # "idle"
    /\ upd.thread = "started"
    /\ \/ ~Stale /\ upd' = Finish("throttled")
       \/ Stale  /\ upd' = [upd EXCEPT !.thread = "fetch", !.last_check = now]
       \/ Stale  /\ upd' = Finish("io_failure")
    /\ UNCHANGED <<stateDoc, paused, cfg, now, prompt_log, out, run, docs, envVars, cli>>

\* What the remote VERSION can read, stripped.
RemoteVersions == {"", "1.0", "2.0"}

\* What the request can come to: a version string, no answer, an answer
\* that does not decode.
Fetches == RemoteVersions \cup {"network_failure", "parse_failure"}

\* urlopen(req, timeout=5) and resp.read().decode().strip()
Fetch ==
    /\ upd.main # "idle"
    /\ upd.thread = "fetch"
    /\ \E result \in Fetches :
          upd' = IF result \in {"network_failure", "parse_failure"}
                 THEN Finish(result)
                 ELSE [upd EXCEPT !.thread = "flag", !.remote = result]
    /\ UNCHANGED <<stateDoc, paused, cfg, now, prompt_log, out, run, docs, envVars, cli>>

\* if remote_version and local_version and remote_version != local_version
Differs == upd.remote # "" /\ upd.local # "" /\ upd.remote # upd.local

\* Mutant: any two different strings raise the flag.
FlagAnyDifference ==
    /\ upd.main # "idle"
    /\ upd.thread = "flag"
    /\ \/ upd.remote # upd.local
          /\ upd' = [Finish("flagged") EXCEPT !.flag = upd.remote]
       \/ upd.remote = upd.local
          /\ upd' = [Finish("cleared") EXCEPT !.flag = ""]
    /\ UNCHANGED <<stateDoc, paused, cfg, now, prompt_log, out, run, docs, envVars, cli>>

\* .update_available is written with the remote version when the versions
\* differ and removed when they do not; a failing write is swallowed like
\* every other exception.
Flag ==
    /\ upd.main # "idle"
    /\ upd.thread = "flag"
    /\ \/ Differs /\ upd' = [Finish("flagged") EXCEPT !.flag = upd.remote]
       \/ Differs /\ upd' = Finish("io_failure")
       \/ ~Differs /\ upd' = [Finish("cleared") EXCEPT !.flag = ""]
    /\ UNCHANGED <<stateDoc, paused, cfg, now, prompt_log, out, run, docs, envVars, cli>>

-----------------------------------------------------------------------------
(* Hook registration: install.py and uninstall.py on settings.json *)

\* settings['hooks'] maps an event to a list of entries; an entry is the
\* list of the commands of its hooks, a command the list of its words.  A
\* command mentions a script when one of its words is the script.
RegisteredEvents ==
    <<"SessionStart", "UserPromptSubmit", "Stop", "Notification",
      "PermissionRequest">>

\* An event the installer does not register for.
SettingsEvents == {RegisteredEvents[i] : i \in 1..5} \cup {"PreToolUse"}

\* 'script' in hk.get('command', '')
Mentions(command, script) == \E i \in 1..Len(command) : command[i] = script

\* any(... for hk in h.get('hooks', [])) over the scripts given
MentionsAny(entry, scripts) ==
    \E i \in 1..Len(entry) : \E s \in scripts : Mentions(entry[i], s)

\* peon_entry = {'matcher': '', 'hooks': [peon_hook]}
peon_entry(python_cmd) == << <<python_cmd, "peon.py">> >>

\* find_python_cmd()
PythonCmds == {"python3", "python"}

\* hooks.get(event, [])
EventHooks(hooks, event) == IF event \in DOMAIN hooks THEN hooks[event] ELSE <<>>

\* The hooks map after register_hooks.
\* Mutant: the entry is appended to what is there.
RegisteredAppending(hooks, python_cmd) ==
    [event \in DOMAIN hooks \cup {RegisteredEvents[i] : i \in 1..5} |->
        IF \E i \in 1..5 : RegisteredEvents[i] = event
        THEN Append(EventHooks(hooks, event), peon_entry(python_cmd))
        ELSE hooks[event]]

Registered(hooks, python_cmd) ==
    [event \in DOMAIN hooks \cup {RegisteredEvents[i] : i \in 1..5} |->
        IF \E i \in 1..5 : RegisteredEvents[i] = event
        THEN Append(SelectSeq(EventHooks(hooks, event),
                              LAMBDA h : ~MentionsAny(h, {"notify.sh", "peon.sh", "peon.py"})),
                    peon_entry(python_cmd))
        ELSE hooks[event]]

\* The hooks map after remove_hooks.
\* Mutant: an event that lost all its entries stays in the map.
RemovedKeepingEvents(hooks) ==
    [event \in DOMAIN hooks |->
        SelectSeq(hooks[event],
                  LAMBDA h : ~MentionsAny(h, {"peon.sh", "peon.py"}))]

Removed(hooks) ==
    LET entries(event) ==
            SelectSeq(hooks[event],
                      LAMBDA h : ~MentionsAny(h, {"peon.sh", "peon.py"}))
    IN [event \in {e \in DOMAIN hooks : entries(e) # <<>>} |-> entries(event)]

\* install.py: register_hooks()
register_hooks(python_cmd) ==
    /\ settings.installs < MaxInstalls
    /\ settings' = [settings EXCEPT !.hooks = Registered(@, python_cmd),
                                    !.last = "install",
                                    !.installs = @ + 1]
    /\ UNCHANGED <<stateDoc, paused, cfg, now, prompt_log, out, run, docs,
                   installed, marker_text, proj, cli, upd, peer>>

\* uninstall.py: remove_hooks()
remove_hooks ==
    /\ settings' = [settings EXCEPT !.hooks = Removed(@), !.last = "uninstall"]
    /\ UNCHANGED <<stateDoc, paused, cfg, now, prompt_log, out, run, docs,
                   installed, marker_text, proj, cli, upd, peer>>

NoOut == Quiet("", "", "", "", "init", 0)

\* The state document is {} and no invocation has run.
FreshState ==
    /\ agent_sessions = {}
    /\ session_packs = [s \in Sessions |-> ""]
    /\ prompt_timestamps = [s \in Sessions |-> <<>>]
    /\ last_played = [c \in Categories |-> ""]
    /\ prompt_log = [s \in Sessions |-> <<>>]
    /\ now = 0
    /\ out = NoOut
    /\ run = Idle

\* Both documents hold a JSON object.
ObjectDocs == [config |-> "object", state |-> "object"]

\* The packs of the model are installed with readable manifests.
PacksInstalled == [p \in Packs |-> "ok"]

\* No CLI command has run.
NoCli ==
    [cmd |-> [dashes |-> 0, word |-> ""], arg |-> <<>>, again |-> FALSE,
     rc |-> 0, stdout |-> "", stderr |-> <<>>, read_stdin |-> FALSE,
     was_paused |-> FALSE, cycle_start |-> "", cycles |-> 0]

\* No project name has been derived.
\* No settings.json: no hooks, nothing has run.
NoSettings == [hooks |-> <<>>, before |-> <<>>, last |-> "", installs |-> 0]

\* No invocation is running, no check was ever made, no update is flagged.
\* last_check is the time in .last_update_check, -1 when the file is missing.
\* local is what VERSION holds and flag what .update_available holds, ""
\* when the file is missing; remote is what the thread has fetched.
NoUpd ==
    [main |-> "idle", thread |-> "none", outcome |-> "", last_check |-> -1,
     local |-> "", remote |-> "", flag |-> "", notice |-> FALSE]

NoProj == [platform |-> "", cwd |-> <<>>, name |-> <<>>]

\* A fresh installation: the state document is {}.
InitState ==
    /\ FreshState
    /\ docs = ObjectDocs
    /\ installed = PacksInstalled
    /\ marker_text = ""
    /\ cli = NoCli
    /\ proj = NoProj
    /\ upd = NoUpd
    /\ peer = Idle
    /\ settings = NoSettings

Init ==
    /\ InitState
    /\ paused \in BOOLEAN
    /\ cfg \in Configs

\* The number of prompts recorded so far.
Recorded == Len(prompt_log["s1"]) + Len(prompt_log["s2"])

\* The invocation would reach the branch that records a prompt.
WouldRecord(event, session_id, perm_mode) ==
    /\ cfg.enabled
    /\ ~IsDelegate(perm_mode)
    /\ ~IsAgentSession(session_id)
    /\ RecordsPrompt(event)

HookEvent ==
    \E event \in Events, session_id \in Sessions, perm_mode \in PermModes :
      \E ntype \in NTypesOf(event) :
        /\ WouldRecord(event, session_id, perm_mode) => Recorded < MaxPrompts
        /\ Hook(event, ntype, session_id, perm_mode)

Next == HookEvent

Spec == Init /\ [][Next]_vars

\* The rapid-prompt detector under a running clock: prompts only, with the
\* annoyed flag switched in the configuration between invocations.
TimedConfigs ==
    { DefaultConfig, [DefaultConfig EXCEPT !.disabled = {"annoyed"}] }

InitTimed ==
    /\ InitState
    /\ paused = FALSE
    /\ cfg \in TimedConfigs

PromptEvent ==
    \E session_id \in Sessions, perm_mode \in PermModes :
      /\ WouldRecord("UserPromptSubmit", session_id, perm_mode)
            => Recorded < MaxTimedPrompts
      /\ Hook("UserPromptSubmit", "", session_id, perm_mode)

\* config.json is edited between two invocations.
EditConfig ==
    /\ cfg' \in TimedConfigs \ {cfg}
    /\ UNCHANGED <<stateDoc, paused, now, prompt_log, out, run, docs, envVars, cli, upd>>

NextTimed == PromptEvent \/ Tick \/ EditConfig

SpecTimed == InitTimed /\ [][NextTimed]_vars

\* Pack rotation under a configuration whose pack_rotation list is edited
\* between invocations.
Rotations == { <<>>, <<"peon">>, <<"twin">>, <<"peon", "twin">> }

RotationEvents == {"SessionStart", "Stop", "SomeOtherEvent"}

InitRotation ==
    /\ InitState
    /\ paused = FALSE
    /\ cfg \in { [DefaultConfig EXCEPT !.pack_rotation = r, !.active_pack = p] :
                   r \in Rotations, p \in Packs }

RotationEvent ==
    \E event \in RotationEvents, session_id \in Sessions,
       perm_mode \in PermModes :
      /\ WouldRecord(event, session_id, perm_mode) => Recorded < MaxPrompts
      /\ Hook(event, "", session_id, perm_mode)

\* pack_rotation of config.json is edited between two invocations.
EditRotation ==
    /\ \E r \in Rotations \ {cfg.pack_rotation} :
          cfg' = [cfg EXCEPT !.pack_rotation = r]
    /\ UNCHANGED <<stateDoc, paused, now, prompt_log, out, run, docs, envVars, cli, upd>>

NextRotation == RotationEvent \/ EditRotation

SpecRotation == InitRotation /\ [][NextRotation]_vars

\* The growth of the state document: prompts of delegated and plain sessions
\* under a running clock and an edited pack_rotation, with the pause marker
\* present.
InitStore ==
    /\ InitState
    /\ paused = TRUE
    /\ cfg \in { [DefaultConfig EXCEPT !.pack_rotation = r] : r \in Rotations }

StoreEvent ==
    \E session_id \in Sessions, perm_mode \in PermModes :
      /\ WouldRecord("UserPromptSubmit", session_id, perm_mode)
            => Recorded < MaxPrompts
      /\ Hook("UserPromptSubmit", "", session_id, perm_mode)

NextStore == StoreEvent \/ Tick \/ EditRotation

SpecStore == InitStore /\ [][NextStore]_vars

\* Sequential invocations run statement by statement, on any stdin.
StepConfigs ==
    { DefaultConfig, [DefaultConfig EXCEPT !.pack_rotation = <<"peon", "twin">>] }

StepEvents == {"SessionStart", "UserPromptSubmit", "SomeOtherEvent"}

InitSteps ==
    /\ InitState
    /\ paused = FALSE
    /\ cfg \in StepConfigs

Stdin ==
    \/ \E kind \in StdinKinds \ {"object"} : ReadStdin(kind, "", "", "", "")
    \/ \E event \in StepEvents, session_id \in Sessions,
          perm_mode \in PermModes :
         /\ WouldRecord(event, session_id, perm_mode) => Recorded < MaxPrompts
         /\ ReadStdin("object", event, "", session_id, perm_mode)

NextSteps ==
    \/ Stdin
    \/ Detect
    \/ Rotate
    \/ RouteStep
    \/ Select
    \/ WriteStep
    \/ Emit
    \/ Play
    \/ Notify

SpecSteps == InitSteps /\ [][NextSteps]_vars

\* Invocations run statement by statement on the events that notify, with
\* and without the pause marker.
OrderEvents == {"SessionStart", "Stop", "SomeOtherEvent"}

InitOrder ==
    /\ InitState
    /\ paused \in BOOLEAN
    /\ cfg \in StepConfigs

StdinOrder ==
    \E event \in OrderEvents, session_id \in Sessions, perm_mode \in PermModes :
       ReadStdin("object", event, "", session_id, perm_mode)

NextOrder ==
    \/ StdinOrder
    \/ Detect
    \/ Rotate
    \/ RouteStep
    \/ Select
    \/ WriteStep
    \/ Emit
    \/ Play
    \/ Notify

SpecOrder == InitOrder /\ [][NextOrder]_vars

\* Invocations whose write is seen as the file system sees it, and which
\* can be stopped at any point.
WriteEvents == {"SessionStart", "Stop"}

StdinWrite ==
    \E event \in WriteEvents, session_id \in Sessions :
       ReadStdin("object", event, "", session_id, "default")

NextWrite ==
    \/ StdinWrite
    \/ Detect
    \/ Rotate
    \/ RouteStep
    \/ Select
    \/ OpenState
    \/ DumpState
    \/ Emit
    \/ Play
    \/ Notify
    \/ Kill

SpecWrite == InitOrder /\ [][NextWrite]_vars

\* Two invocations, one in each process, that overlap in any way.
OverlapEvents == {"Stop", "UserPromptSubmit"}

InitOverlap ==
    /\ InitState
    /\ paused = FALSE
    /\ cfg = [DefaultConfig EXCEPT !.pack_rotation = <<"peon", "twin">>]

StdinOverlap ==
    \E event \in OverlapEvents, session_id \in Sessions, perm_mode \in PermModes :
       /\ run.trace = <<>>
       /\ ReadStdin("object", event, "", session_id, perm_mode)

NextOverlap ==
    \/ StdinOverlap
    \/ Detect
    \/ Rotate
    \/ RouteStep
    \/ Select
    \/ WriteStep
    \/ Emit
    \/ Play
    \/ Notify
    \/ Switch

SpecOverlap == InitOverlap /\ [][NextOverlap]_vars

\* Hook invocations on any stdin and any pair of documents, the enabled flag
\* being switched in config.json between invocations.
MainConfigs == { DefaultConfig, [DefaultConfig EXCEPT !.enabled = FALSE] }

MainEvents == {"SessionStart", "Stop", "SomeOtherEvent"}

InitMain ==
    /\ FreshState
    /\ paused = FALSE
    /\ docs \in [config : DocKinds, state : DocKinds]
    /\ cfg \in IF docs.config = "object" THEN MainConfigs ELSE {DefaultConfig}
    /\ installed = PacksInstalled
    /\ marker_text = ""
    /\ cli = NoCli
    /\ proj = NoProj
    /\ upd = NoUpd
    /\ peer = Idle
    /\ settings = NoSettings

MainEvent ==
    \/ \E kind \in StdinKinds \ {"object"} : Main(kind, "", "", "", "")
    \/ \E event \in MainEvents, session_id \in Sessions,
          perm_mode \in PermModes :
         Main("object", event, "", session_id, perm_mode)

\* The enabled flag of config.json is edited between two invocations.
EditEnabled ==
    /\ docs.config = "object"
    /\ cfg' = [cfg EXCEPT !.enabled = ~@]
    /\ UNCHANGED <<stateDoc, paused, now, prompt_log, out, run, docs, envVars, cli, upd>>

NextMain == MainEvent \/ EditEnabled

SpecMain == InitMain /\ [][NextMain]_vars

\* Sequences of CLI commands on any installation of packs, with the pause
\* marker present or not and config.json readable or not.
CliArgs ==
    { [dashes |-> 2, word |-> w] :
        w \in {"pause", "resume", "toggle", "status", "packs", "pack",
               "help", "bogus"} }
      \cup { [dashes |-> 1, word |-> "h"], [dashes |-> 1, word |-> "x"],
             [dashes |-> 0, word |-> "foo"] }

PackArgs == { <<>>, <<"alpha">>, <<"peon">>, <<"twin">>, <<"nope">> }

Installations ==
    { [alpha |-> "none", peon |-> "none", twin |-> "none"],
      [alpha |-> "none", peon |-> "ok",   twin |-> "none"],
      [alpha |-> "ok",   peon |-> "ok",   twin |-> "none"],
      [alpha |-> "ok",   peon |-> "ok",   twin |-> "ok"],
      [alpha |-> "ok",   peon |-> "ok",   twin |-> "corrupt"] }

CliConfigs ==
    { [DefaultConfig EXCEPT !.active_pack = p] :
        p \in {"alpha", "peon", "twin", "ghost"} }

InitCli ==
    /\ FreshState
    /\ paused \in BOOLEAN
    /\ marker_text \in IF paused THEN {"", "junk"} ELSE {""}
    /\ docs \in [config : {"object", "garbage", "nonobject"}, state : {"object"}]
    /\ cfg \in IF docs.config = "object" THEN CliConfigs ELSE {DefaultConfig}
    /\ installed \in Installations
    /\ cli = NoCli
    /\ proj = NoProj
    /\ upd = NoUpd
    /\ peer = Idle
    /\ settings = NoSettings

CliCommand ==
    \E cmd \in CliArgs :
      \E arg \in IF cmd.word = "pack" THEN PackArgs ELSE {<<>>} :
        Cli(cmd, arg, "object", "Stop", "s1", "delegate")

NextCli == CliCommand

SpecCli == InitCli /\ [][NextCli]_vars

\* The project name of every cwd string, on either platform.
Cwds == UNION { [1..n -> CwdChars] : n \in 0..MaxCwdLen }

InitProject ==
    /\ InitState
    /\ paused = FALSE
    /\ cfg = DefaultConfig

NextProject == \E platform \in Platforms, cwd \in Cwds : ProjectName(platform, cwd)

SpecProject == InitProject /\ [][NextProject]_vars

\* Invocations with the update check running beside them.
UpdateEvents == {"SessionStart", "Stop", "SomeOtherEvent"}

InitUpdate ==
    /\ FreshState
    /\ paused \in BOOLEAN
    /\ cfg = DefaultConfig
    /\ docs = ObjectDocs
    /\ installed = PacksInstalled
    /\ marker_text = ""
    /\ cli = NoCli
    /\ proj = NoProj
    /\ peer = Idle
    /\ settings = NoSettings
    /\ upd \in { [NoUpd EXCEPT !.last_check = t, !.local = v, !.flag = f] :
                    t \in {-1, 0}, v \in {"", "1.0"}, f \in {"", "2.0"} }

NextUpdate ==
    \/ \E event \in UpdateEvents, perm_mode \in PermModes : Invoke(event, "s1", perm_mode)
    \/ EmitAll
    \/ ProcessExit
    \/ CheckStamp
    \/ Fetch
    \/ Flag
    \/ Tick

SpecUpdate == InitUpdate /\ [][NextUpdate]_vars

\* The installer and the uninstaller on any settings.json.
UserEntry == << <<"lint.sh">> >>
OtherEntry == << <<"fmt.sh">>, <<"test.sh">> >>
NoHooksEntry == <<>>
NotifyEntry == << <<"bash", "notify.sh">> >>
PeonShEntry == << <<"bash", "peon.sh">> >>
MixedEntry == << <<"lint.sh">>, <<"python3", "peon.py">> >>

\* What an event can hold before anything ran.
EntryLists ==
    { <<>>,
      <<UserEntry, peon_entry("python3"), OtherEntry>>,
      <<NotifyEntry, NoHooksEntry, PeonShEntry, UserEntry>>,
      <<MixedEntry, peon_entry("python"), peon_entry("python")>> }

InitSettings ==
    /\ FreshState
    /\ paused = FALSE
    /\ cfg = DefaultConfig
    /\ docs = ObjectDocs
    /\ installed = PacksInstalled
    /\ marker_text = ""
    /\ cli = NoCli
    /\ proj = NoProj
    /\ upd = NoUpd
    /\ peer = Idle
    /\ \E hooks \in [SettingsEvents -> EntryLists] \cup {<<>>} :
          settings = [NoSettings EXCEPT !.hooks = hooks, !.before = hooks]

NextSettings ==
    \/ \E python_cmd \in PythonCmds : register_hooks(python_cmd)
    \/ remove_hooks

SpecSettings == InitSettings /\ [][NextSettings]_vars

-----------------------------------------------------------------------------
(* Properties *)

\* A step of a hook invocation (the clock, the pause marker and the
\* configuration stay as they are); out' is the record of that invocation.
HookStep == UNCHANGED <<paused, cfg, now>>

\* The session of the last invocation.
OutSession == out.session_id

\* C1: an event whose permission_mode is the delegated marker puts its
\* session id into agent_sessions, and that event and every later event of
\* a session in agent_sessions leaves last_played, session_packs and
\* prompt_timestamps as they were.
C1_DelegatedSessionFrozen ==
    [][ HookStep =>
          /\ (out'.perm_mode = "delegate"
                => out'.session_id \in agent_sessions')
          /\ (out'.session_id \in agent_sessions'
                => UNCHANGED <<last_played, session_packs, prompt_timestamps>>)
      ]_vars

\* C1 witness: a later event of a delegated session that had a pack, a
\* recorded prompt and a played greeting before it was delegated.
C1_Witness ==
    /\ out.exit = "agent"
    /\ out.event = "UserPromptSubmit"
    /\ out.perm_mode = "default"
    /\ session_packs[OutSession] # ""
    /\ prompt_timestamps[OutSession] # <<>>
    /\ last_played["greeting"] # ""

\* C2: an event with the delegated marker, or of a session already in
\* agent_sessions, ends before routing with no sound, no notification and
\* no title; agent_sessions never loses a session, so this holds for every
\* later event of the session.
C2_DelegatedEndsBeforeRouting ==
    [][ HookStep =>
          /\ agent_sessions \subseteq agent_sessions'
          /\ (out'.perm_mode = "delegate" \/ out'.session_id \in agent_sessions)
                => /\ out'.exit \in {"delegate", "agent"}
                   /\ out'.sound = ""
                   /\ ~out'.notified
                   /\ ~out'.title
                   /\ out'.status = ""
      ]_vars

\* C2 witness: a Stop event (which would notify) of a session delegated
\* earlier, arriving without the marker.
C2_Witness ==
    /\ out.exit = "agent"
    /\ out.event = "Stop"
    /\ out.perm_mode = "default"
    /\ ~paused

\* The row of the routing table for an event: category, status, marker,
\* notify, colour.
TableRow(category, status, marker, notify, notify_color) ==
    /\ out.exit = "done"
    /\ out.routed = category
    /\ out.status = status
    /\ out.marker = marker
    /\ out.notify = notify
    /\ out.notify_color = notify_color

\* C3: for an event of a non-delegated session the routing result is the
\* row of the routing table for (event, notification subtype); the category
\* of UserPromptSubmit is "annoyed" exactly when annoyed fires, else empty;
\* every other event or subtype is a no-op.
C3_RoutingTable ==
    out.exit \in {"done", "noop"} =>
      CASE out.event = "SessionStart" ->
              TableRow("greeting", "ready", "", FALSE, "")
        [] out.event = "UserPromptSubmit" ->
              TableRow(IF /\ "annoyed" \notin cfg.disabled
                          /\ Len(prompt_timestamps[OutSession])
                               >= cfg.annoyed_threshold
                       THEN "annoyed" ELSE "",
                       "working", "", FALSE, "")
        [] out.event = "Stop" ->
              TableRow("complete", "done", Bullet, TRUE, "blue")
        [] out.event = "Notification" /\ out.ntype = "permission_prompt" ->
              TableRow("permission", "needs approval", Bullet, TRUE, "red")
        [] out.event = "Notification" /\ out.ntype = "idle_prompt" ->
              TableRow("", "done", Bullet, TRUE, "yellow")
        [] out.event = "PermissionRequest" ->
              TableRow("permission", "needs approval", Bullet, TRUE, "red")
        [] OTHER -> out.exit = "noop" /\ out.routed = "" /\ ~out.notify

\* C3 witness: a Stop event routed for one session while the other session
\* is delegated.
C3_Witness ==
    /\ out.event = "Stop"
    /\ out.exit = "done"
    /\ out.notify_color = "blue"
    /\ agent_sessions # {}

\* The sound list the selector of the last invocation looked up.
OutSounds == Sounds(out.pack, out.category)

\* C4: a pick from a list of at least 2 sounds differs from the file
\* last_played held for the category before the pick; a list of exactly 1
\* sound yields that sound on every selection.
C4_NoImmediateRepeat ==
    /\ (out.sound # "" /\ Len(OutSounds) >= 2) => out.sound # out.last_file
    /\ (out.exit = "done" /\ out.category # "" /\ ~paused /\ Len(OutSounds) = 1)
          => out.sound = OutSounds[1]

\* C4 witness: a pick from a two-sound list made while last_played already
\* held a file of that list.
C4_Witness ==
    /\ out.sound # ""
    /\ Len(OutSounds) >= 2
    /\ out.last_file \in Range(OutSounds)

\* The candidate pool as the contract states it.
ContractPool ==
    IF Len(OutSounds) <= 1 THEN Range(OutSounds)
    ELSE { f \in Range(OutSounds) : f # out.last_file }

\* C5: the selector yields no sound exactly when the category is empty, the
\* pause marker is present or the pack has no sounds for the category; in
\* every other case it picks from the candidate pool and records the pick
\* as last_played[category].
C5_SelectorContract ==
    out.exit = "done" =>
      IF out.category = "" \/ paused \/ OutSounds = <<>>
      THEN out.sound = ""
      ELSE /\ out.sound \in ContractPool
           /\ last_played[out.category] = out.sound

\* The greeting list of the pack of the last invocation.
GreetingSounds == Sounds(out.pack, "greeting")

InWindow(ts, t) == SelectSeq(ts, LAMBDA x : t - x < cfg.annoyed_window)

\* A step of an invocation that handles a UserPromptSubmit of a session that
\* is not delegated, with the annoyed category enabled.
PromptStep ==
    /\ HookStep
    /\ out'.event = "UserPromptSubmit"
    /\ out'.exit = "done"
    /\ "annoyed" \notin cfg.disabled

\* C7: with annoyed enabled, a prompt of session s gets category "annoyed"
\* if and only if the prompts recorded for s with an age below the window,
\* the current one included, number at least annoyed_threshold; the prompts
\* of other sessions do not count.
C7_AnnoyedIffThreshold ==
    [][ PromptStep =>
          (out'.routed = "annoyed"
             <=> Len(InWindow(prompt_log'[out'.session_id], now))
                   >= cfg.annoyed_threshold)
      ]_vars

\* C7 witness: annoyed fired for a session one of whose prompts had aged
\* out, while the other session has prompts in the window too.
C7_Witness ==
    /\ out.event = "UserPromptSubmit"
    /\ out.routed = "annoyed"
    /\ prompt_log[OutSession][Len(prompt_log[OutSession])] = now
    /\ Len(InWindow(prompt_log[OutSession], now)) = cfg.annoyed_threshold
    /\ Len(prompt_log[OutSession]) > cfg.annoyed_threshold
    /\ \E s \in Sessions \ {OutSession} : InWindow(prompt_log[s], now) # <<>>

\* C8: firing annoyed keeps the session's list (at least annoyed_threshold
\* entries stay recorded), and the prompt after one that fired fires again
\* exactly when at least annoyed_threshold - 1 earlier prompts are still
\* inside the window.
C8_AnnoyedNotReset ==
    [][ PromptStep =>
          LET s == out'.session_id IN
          /\ out'.routed = "annoyed"
                => Len(prompt_timestamps'[s]) >= cfg.annoyed_threshold
          /\ Len(prompt_timestamps[s]) >= cfg.annoyed_threshold
                => (out'.routed = "annoyed"
                      <=> Len(InWindow(prompt_log[s], now))
                            >= cfg.annoyed_threshold - 1)
      ]_vars

\* C8 witness: a prompt that no longer fires, after one of the same session
\* that did, because the earlier prompts aged out.
C8_Witness ==
    /\ out.event = "UserPromptSubmit"
    /\ out.recorded
    /\ out.routed = ""
    /\ Len(prompt_log[OutSession]) > cfg.annoyed_threshold
    /\ \E i \in 1..Len(prompt_log[OutSession]) :
          /\ i >= cfg.annoyed_threshold
          /\ prompt_log[OutSession][i] = prompt_log[OutSession][1]

C10_AnnoyedDisabled ==
    [][ (/\ HookStep
         /\ out'.event = "UserPromptSubmit"
         /\ "annoyed" \in cfg.disabled)
          => /\ out'.routed # "annoyed"
             /\ out'.category # "annoyed"
             /\ ~out'.recorded
             /\ UNCHANGED <<prompt_timestamps, last_played>>
      ]_vars

\* C10 witness: a prompt handled with annoyed disabled, while the session's
\* list holds enough prompts in the window for it to have fired.
C10_Witness ==
    /\ out.event = "UserPromptSubmit"
    /\ out.exit = "done"
    /\ ~out.recorded
    /\ "annoyed" \in cfg.disabled
    /\ Len(InWindow(prompt_timestamps[OutSession], now))
          >= cfg.annoyed_threshold - 1

\* C11 as stated: once session_packs maps a session to a pack, no later step
\* changes the mapping, also when pack_rotation no longer holds the pack.
C11_PackKept_Original ==
    [][\A s \in Sessions :
          session_packs[s] # "" => session_packs'[s] = session_packs[s]]_vars

\* C11 (amended): a recorded pack is kept by every invocation for as long as
\* it is a member of the configured pack_rotation, or pack_rotation is empty;
\* a mapping is only ever replaced for the invocation's own session, by a
\* member of pack_rotation, when the recorded pack is no longer a member.
C11_PackKept ==
    [][\A s \in Sessions :
          /\ (/\ session_packs[s] # ""
              /\ (cfg.pack_rotation = <<>>
                  \/ \E i \in 1..Len(cfg.pack_rotation) :
                        cfg.pack_rotation[i] = session_packs[s]))
             => session_packs'[s] = session_packs[s]
          /\ session_packs'[s] # session_packs[s]
             => /\ s = out'.session_id
                /\ \E i \in 1..Len(cfg.pack_rotation) :
                      cfg.pack_rotation[i] = session_packs'[s]]_vars

\* A session with a recorded pack went through a routed invocation that drew
\* nothing although the rotation offers another pack.
C11_Witness ==
    /\ out.exit = "done"
    /\ ~out.drew
    /\ out.wrote = 1
    /\ Len(cfg.pack_rotation) = 2
    /\ session_packs[OutSession] = out.pack

\* C12: with a non-empty pack_rotation, an invocation of a non-delegated
\* session uses the recorded pack and leaves the mapping alone when that pack
\* is a member of pack_rotation; otherwise it draws a member, records it for
\* the session and marks the state dirty.  The pack used is always a member.
C12_RotationDraw ==
    [][(/\ HookStep
        /\ out'.exit \in {"done", "noop"}
        /\ cfg.pack_rotation # <<>>)
       => LET s   == out'.session_id
              rec == session_packs[s]
              members == { cfg.pack_rotation[i] : i \in 1..Len(cfg.pack_rotation) }
          IN
          /\ out'.pack \in members
          /\ IF rec # "" /\ rec \in members
             THEN /\ out'.pack = rec
                  /\ ~out'.drew
                  /\ session_packs' = session_packs
             ELSE /\ out'.drew
                  /\ out'.exit = "done"
                     => /\ session_packs' = [session_packs EXCEPT ![s] = out'.pack]
                        /\ out'.wrote = 1]_vars

\* A pack was drawn and recorded by a routed invocation under a rotation of
\* one pack that is not the configuration's active_pack.
C12_Witness ==
    /\ out.exit = "done"
    /\ out.drew
    /\ out.wrote = 1
    /\ cfg.pack_rotation = <<"twin">>
    /\ cfg.active_pack = "peon"
    /\ out.pack = "twin"
    /\ session_packs[OutSession] = "twin"

\* C13: with an empty pack_rotation no invocation creates or changes a
\* session_packs entry, and the pack used is the configuration's active_pack.
C13_EmptyRotation ==
    [][(HookStep /\ cfg.pack_rotation = <<>>)
       => /\ session_packs' = session_packs
          /\ out'.exit \in {"done", "noop"}
             => /\ out'.pack = cfg.active_pack
                /\ ~out'.drew]_vars

\* A session whose recorded pack differs from active_pack played a sound of
\* active_pack under an empty rotation.
C13_Witness ==
    /\ cfg.pack_rotation = <<>>
    /\ out.exit = "done"
    /\ out.sound # ""
    /\ session_packs[OutSession] # ""
    /\ session_packs[OutSession] # cfg.active_pack
    /\ out.pack = cfg.active_pack

\* What the invocation asks of the title and the notifier: status text,
\* marker, notification request with colour and label, and whether the
\* notification is sent.
Requests(status, marker, notify, notify_color, label) ==
    /\ out'.title
    /\ out'.status = status
    /\ out'.marker = marker
    /\ out'.notify = notify
    /\ out'.notify_color = notify_color
    /\ out'.label = label
    /\ out'.notified = (notify /\ ~paused)

\* C14: when the category routed for an event is disabled, the resolved
\* category is empty, no sound is picked and last_played is unchanged, while
\* status, title and notification request are those of the routing table,
\* as with the category enabled.
C14_DisabledCategory ==
    [][(/\ HookStep
        /\ out'.exit = "done"
        /\ out'.routed # ""
        /\ out'.routed \in cfg.disabled)
       => /\ out'.category = ""
          /\ out'.sound = ""
          /\ last_played' = last_played
          /\ CASE out'.event = "SessionStart" ->
                    Requests("ready", "", FALSE, "", "")
               [] out'.event = "UserPromptSubmit" ->
                    Requests("working", "", FALSE, "", "")
               [] out'.event = "Stop" ->
                    Requests("done", Bullet, TRUE, "blue", "Task complete")
               [] OTHER ->
                    Requests("needs approval", Bullet, TRUE, "red",
                             "Permission needed")]_vars

\* A Stop event with the complete category disabled: no sound, the
\* notification is sent.
C14_Witness ==
    /\ out.exit = "done"
    /\ out.event = "Stop"
    /\ out.routed = "complete"
    /\ "complete" \in cfg.disabled
    /\ out.category = ""
    /\ out.sound = ""
    /\ out.marker = Bullet
    /\ out.notified

\* C15: an event that resolves to an empty category (Notification with
\* idle_prompt, or UserPromptSubmit below the annoyed threshold) picks no
\* sound and leaves every entry of last_played as it was.
C15_EmptyCategory ==
    [][(/\ HookStep
        /\ out'.exit = "done"
        /\ \/ out'.event = "Notification" /\ out'.ntype = "idle_prompt"
           \/ /\ out'.event = "UserPromptSubmit"
              /\ \/ "annoyed" \in cfg.disabled
                 \/ Len(prompt_timestamps'[out'.session_id])
                      < cfg.annoyed_threshold)
       => /\ out'.category = ""
          /\ out'.sound = ""
          /\ last_played' = last_played]_vars

\* An idle_prompt notification handled after a completion sound had been
\* recorded in last_played.
C15_Witness ==
    /\ out.exit = "done"
    /\ out.event = "Notification"
    /\ out.ntype = "idle_prompt"
    /\ out.category = ""
    /\ out.notified
    /\ last_played["complete"] # ""
    /\ \E s \in Sessions : Len(prompt_timestamps[s]) > 0

\* C16: the store only grows: no step removes a session from agent_sessions,
\* and no step removes a key of session_packs or of prompt_timestamps.
C16_StoreGrows ==
    [][/\ agent_sessions \subseteq agent_sessions'
       /\ \A s \in Sessions :
            /\ session_packs[s] # "" => session_packs'[s] # ""
            /\ prompt_timestamps[s] # <<>> => prompt_timestamps'[s] # <<>>]_vars

\* One session was delegated after it had prompted; the other still has its
\* keys after timestamps were pruned and its pack left the rotation.
C16_Witness ==
    /\ agent_sessions = {"s1"}
    /\ prompt_timestamps["s1"] # <<>>
    /\ session_packs["s1"] # ""
    /\ prompt_timestamps["s2"] # <<>>
    /\ Len(prompt_log["s2"]) > Len(prompt_timestamps["s2"])
    /\ session_packs["s2"] # ""
    /\ \A i \in 1..Len(cfg.pack_rotation) :
          cfg.pack_rotation[i] # session_packs["s2"]

\* C17: in every invocation, on every path, the state document is written at
\* most once, and the write comes after every in-memory mutation: what is
\* written is the state as it is in memory, and the memory does not change
\* between the write and the end of the invocation.
C17_WriteOnceLast ==
    [][/\ run'.writes <= 1
       /\ out'.wrote <= 1
       \* the delegated short-circuit: the session is added, then written
       /\ (run.pc = "detect" /\ run.perm_mode = "delegate")
          => /\ agent_sessions' = run.mem.agent_sessions \cup {run.session_id}
             /\ session_packs' = run.mem.session_packs
             /\ prompt_timestamps' = run.mem.prompt_timestamps
             /\ last_played' = run.mem.last_played
             /\ out'.wrote = 1
             /\ run'.pc = "idle"
       \* normal routing: the write stores the memory as it is
       /\ run'.writes = run.writes + 1
          => /\ run.pc = "write"
             /\ run'.mem = run.mem
             /\ agent_sessions' = run.mem.agent_sessions
             /\ session_packs' = run.mem.session_packs
             /\ prompt_timestamps' = run.mem.prompt_timestamps
             /\ last_played' = run.mem.last_played
       \* nothing is mutated or stored once the write is done
       /\ (run.writes = 1 /\ run'.pc # "idle")
          => /\ run'.mem = run.mem
             /\ run'.writes = 1
       \* the document changes only by a write
       /\ (run.pc \notin {"detect", "write"})
          => UNCHANGED stateDoc]_vars

\* A routed invocation that drew a pack and picked a sound has written once
\* and reached the hand-off.
C17_Witness ==
    /\ run.pc = "emit"
    /\ run.writes = 1
    /\ run.drew
    /\ run.sound # ""
    /\ session_packs[run.session_id] = run.active_pack
    /\ last_played[run.category] = run.sound
    /\ prompt_timestamps = run.mem.prompt_timestamps

\* C19: an invocation whose stdin is empty, whitespace only, or not an event
\* descriptor exits with code 0, hands nothing to title, sound or notifier,
\* and leaves the state document unchanged.
C19_BadStdin ==
    [][(run.pc = "idle" /\ out'.exit \in {"blank", "unparsed", "crash"})
       => /\ out'.rc = 0
          /\ ~out'.title
          /\ out'.sound = ""
          /\ ~out'.notified
          /\ UNCHANGED stateDoc]_vars

\* C18 as stated: an invocation writes the state document if and only if it
\* changed some field of the state, and every change made in memory is
\* written back.
C18_WriteIffChanged_Original ==
    [][HookStep
       => /\ (out'.wrote = 1) <=> (stateDoc' # stateDoc)
          /\ out'.drew => session_packs'[out'.session_id] = out'.pack]_vars

\* C18 (amended): a routed invocation that reaches the write does so if and
\* only if its dirty flag is set, that is, it drew a pack, recorded a prompt
\* or picked a sound, and then all of these are in the written document;
\* without the flag the document is unchanged.  The delegated short-circuit
\* always writes; the exits for a known agent session and for a no-op event
\* never write, whatever was changed in memory.
C18_WriteIffDirty ==
    [][HookStep
       => LET s == out'.session_id IN
          /\ out'.exit = "delegate" => out'.wrote = 1
          /\ out'.exit \in {"agent", "noop", "disabled"}
             => out'.wrote = 0 /\ UNCHANGED stateDoc
          /\ out'.exit = "done"
             => /\ (out'.wrote = 1)
                     <=> (out'.drew \/ out'.recorded \/ out'.sound # "")
                /\ out'.wrote = 0 => UNCHANGED stateDoc
                /\ out'.drew => session_packs'[s] = out'.pack
                /\ out'.recorded
                   => \E i \in 1..Len(prompt_timestamps'[s]) :
                         prompt_timestamps'[s][i] = now
                /\ out'.sound # ""
                   => last_played'[out'.category] = out'.sound]_vars

\* A routed invocation wrote the document only because it drew a pack.
C18_Witness ==
    /\ out.exit = "done"
    /\ out.wrote = 1
    /\ out.drew
    /\ ~out.recorded
    /\ out.sound = ""
    /\ session_packs[OutSession] = out.pack

\* C20: an event whose name is not one of the five recognised names, or a
\* Notification whose subtype is neither permission_prompt nor idle_prompt,
\* ends the invocation with exit code 0 and without title, sound or
\* notification; unless the permission mode is the delegated marker the
\* state document is unchanged, a pack drawn for the session included.
C20_UnknownEvent ==
    [][(/\ HookStep
        /\ \/ out'.event \notin {"SessionStart", "UserPromptSubmit", "Stop",
                                 "Notification", "PermissionRequest"}
           \/ /\ out'.event = "Notification"
              /\ out'.ntype \notin {"permission_prompt", "idle_prompt"})
       => /\ out'.rc = 0
          /\ ~out'.title
          /\ out'.sound = ""
          /\ ~out'.notified
          /\ out'.perm_mode # "delegate"
             => /\ UNCHANGED stateDoc
                /\ out'.wrote = 0]_vars

\* A Notification of an unknown subtype for a fresh session under a
\* rotation: a pack was drawn in memory and the document has no entry.
C20_Witness ==
    /\ out.exit = "noop"
    /\ out.event = "Notification"
    /\ out.ntype = "something_else"
    /\ out.drew
    /\ out.pack # ""
    /\ session_packs[OutSession] = ""

\* C21: when the configuration document or the state document is missing,
\* unreadable or malformed, content that parses but is no object of the
\* expected shape included, no invocation is fatal on its account.
C21_DocsNeverFatal ==
    (docs.config # "object" \/ docs.state # "object")
       => /\ out.exit \notin {"crash_config", "crash_state"}
          /\ (out.exit \in {"done", "noop", "delegate", "agent"} => out.rc = 0)

\* C22: every hook invocation ends with exit code 0, whatever stdin, the
\* configuration document and the state document hold.
C22_AlwaysExitZero == out.rc = 0

\* C23: with enabled = false every invocation exits with code 0 before any
\* processing: the state document is unchanged, whatever the event and the
\* permission mode, and no title, sound or notification is produced.
C23_DisabledSkipsAll ==
    [][(HookStep /\ ~cfg.enabled)
       => /\ out'.rc = 0
          /\ out'.exit \in {"blank", "disabled"}
          /\ UNCHANGED stateDoc
          /\ out'.wrote = 0
          /\ ~out'.title
          /\ out'.sound = ""
          /\ ~out'.notified]_vars

\* The installation was switched off after sessions had been recorded; the
\* last invocation ended at the enabled check.
C23_Witness ==
    /\ ~cfg.enabled
    /\ out.exit = "disabled"
    /\ agent_sessions # {}
    /\ last_played["complete"] # ""

\* The command line of the step: `--toggle`, `--status`, `--pack`.
Ran(word) == cli'.cmd.dashes = 2 /\ cli'.cmd.word = word

\* C24: toggle run twice restores the paused state it started from, and
\* toggle and status go by the existence of the pause marker alone, whatever
\* the file holds.
C24_ToggleTwice ==
    [][/\ Ran("toggle") => paused' = ~paused
       /\ (Ran("toggle") /\ cli'.again) => paused' = cli.was_paused
       /\ Ran("status")
          => /\ cli'.stdout = IF paused THEN "peon-ping: paused"
                              ELSE "peon-ping: active"
             /\ UNCHANGED <<paused, marker_text>>]_vars

\* Two toggles in a row ended in the paused state.
C24_Witness ==
    /\ cli.cmd = [dashes |-> 2, word |-> "toggle"]
    /\ cli.again
    /\ ~cli.was_paused
    /\ paused

\* The list printed by sorted(): the pack directories holding a manifest.
IsName(p) == p \in DOMAIN installed /\ installed[p] # "none"

\* C25 as stated: switching to a pack that is not installed reports the
\* error with the list of valid packs on the error stream, exits non-zero
\* and leaves the configuration document as it was.
C25_InvalidPack_Original ==
    [][(Ran("pack") /\ cli'.arg # <<>> /\ ~IsName(cli'.arg[1]))
       => /\ cli'.rc # 0
          /\ cli'.stderr = <<"Error: pack not found", "Available packs">>
          /\ UNCHANGED <<cfg, docs>>]_vars

\* C25 (amended): as stated when at least one pack is installed; with no
\* pack installed the error is "no packs found", without a list, the exit
\* code is non-zero and the configuration document is as it was.
C25_InvalidPack ==
    [][(Ran("pack") /\ cli'.arg # <<>> /\ ~IsName(cli'.arg[1]))
       => /\ cli'.rc # 0
          /\ cli'.stdout = ""
          /\ cli'.stderr =
               IF \E p \in DOMAIN installed : IsName(p)
               THEN <<"Error: pack not found", "Available packs">>
               ELSE <<"Error: no packs found">>
          /\ UNCHANGED <<cfg, docs>>]_vars

\* A pack that is not installed was asked for after a switch to twin.
C25_Witness ==
    /\ cli.cmd = [dashes |-> 2, word |-> "pack"]
    /\ cli.arg = <<"nope">>
    /\ cli.rc = 1
    /\ Len(cli.stderr) = 2
    /\ docs.config = "object"
    /\ cfg.active_pack = "twin"

\* C26: switching to an installed pack sets active_pack to it, exits 0 and
\* leaves every other field of the configuration document as it was.
C26_ValidPack ==
    [][(/\ Ran("pack") /\ cli'.arg # <<>> /\ IsName(cli'.arg[1])
        /\ docs.config = "object")
       => /\ cfg'.active_pack = cli'.arg[1]
          /\ cfg' = [cfg EXCEPT !.active_pack = cli'.arg[1]]
          /\ cli'.rc = 0]_vars

\* C27: `--pack` without a name sets active_pack to the installed pack that
\* follows the current one in alphabetical order, wrapping from the last to
\* the first, and to the first installed pack when the current one is not
\* installed; as many cycles as there are installed packs bring active_pack
\* back to the installed pack the round started from.
C27_Cycle ==
    [][(/\ Ran("pack") /\ cli'.arg = <<>>
        /\ Names # <<>> /\ docs.config # "nonobject")
       => /\ IF IsName(cfg.active_pack)
             THEN \E i \in 1..Len(Names) :
                     /\ Names[i] = cfg.active_pack
                     /\ cfg'.active_pack =
                          Names[IF i = Len(Names) THEN 1 ELSE i + 1]
             ELSE cfg'.active_pack = Names[1]
          /\ (cli'.cycles = Len(Names) /\ IsName(cli'.cycle_start))
             => cfg'.active_pack = cli'.cycle_start]_vars

\* Three packs installed, three cycles done: active_pack is the pack the
\* round started from.
C27_Witness ==
    /\ cli.cmd = [dashes |-> 2, word |-> "pack"]
    /\ cli.arg = <<>>
    /\ Len(Names) = 3
    /\ cli.cycles = 3
    /\ cli.cycle_start = "peon"
    /\ cfg.active_pack = "peon"

\* C28: every recognised command exits with code 0; every unknown flag exits
\* non-zero with an error on the error stream, without reading an event and
\* without changing state, configuration or pause marker.
C28_CliExitCodes ==
    [][/\ (\/ /\ cli'.cmd.dashes = 2
              /\ cli'.cmd.word \in {"pause", "resume", "toggle", "status",
                                    "packs", "help"}
           \/ cli'.cmd = [dashes |-> 1, word |-> "h"]
           \/ Ran("pack") /\ cli'.arg # <<>> /\ IsName(cli'.arg[1]))
          => cli'.rc = 0
       /\ (/\ cli'.cmd.dashes >= 1
           /\ cli'.cmd.word \notin {"pause", "resume", "toggle", "status",
                                    "packs", "pack", "help", "h"})
          => /\ cli'.rc # 0
             /\ cli'.stderr # <<>>
             /\ ~cli'.read_stdin
             /\ UNCHANGED <<stateDoc, cfg, docs, paused, marker_text>>]_vars

ThreadStep == upd'.thread # upd.thread /\ upd.main # "idle"

\* C30: the update check is started only for SessionStart, and whatever it
\* does (success, network, parse or I/O failure, still running at the end)
\* leaves the exit code, the state document and what was decided for title,
\* sound and notification as they were; the main path can always end after
\* its sleep, however far the thread has come.
C30_UpdateCheckHarmless ==
    /\ [](upd.thread # "none" => out.event = "SessionStart" /\ out.exit = "done")
    /\ [][ThreadStep => UNCHANGED <<stateDoc, out, docs, paused, cfg>>]_vars
    /\ [][upd.main = "idle" /\ out'.event # "SessionStart" => upd'.thread = "none"]_vars
    /\ [](upd.main = "sleep" => ENABLED ProcessExit)

\* A SessionStart invocation is over while its check was still waiting for
\* the network: it exited 0 with its title set.
C30_Witness ==
    /\ upd.main = "idle"
    /\ upd.outcome = "killed"
    /\ upd.last_check = now
    /\ out.event = "SessionStart"
    /\ out.rc = 0
    /\ out.title

\* C31: the remote version is fetched at most once per period: a fetch is
\* attempted only when more than the period has passed since the time in
\* the last-checked file (or the file holds no time), that time is set to
\* the present before the fetch, and however the fetch ends the time stays.
C31_Throttle ==
    /\ [][upd.thread = "started" /\ upd'.thread = "fetch"
            => /\ upd.last_check >= 0 => now - upd.last_check > UpdateInterval
               /\ upd'.last_check = now]_vars
    /\ [][upd.thread \in {"fetch", "flag"} /\ upd'.thread # "none"
            => upd'.last_check = upd.last_check]_vars
    /\ [](upd.thread \in {"fetch", "flag"}
            => upd.last_check >= 0 /\ upd.last_check <= now)

\* A second check, a period after the one stamped 0: its fetch failed and
\* the time of the attempt is what the file holds.
C31_Witness ==
    /\ upd.thread = "done"
    /\ upd.outcome = "network_failure"
    /\ now > UpdateInterval
    /\ upd.last_check = now

\* The thread fetched the remote version and came to its end without a
\* failure.
Checked == upd.thread = "done" /\ upd.outcome \in {"flagged", "cleared"}

Rank(step) ==
    CASE step = "detect"       -> 1
      [] step = "rotate"       -> 2
      [] step = "route"        -> 3
      [] step = "select"       -> 4
      [] step = "write"        -> 5
      [] step = "title"        -> 6
      [] step = "sound"        -> 7
      [] step = "notification" -> 8

\* C33: within one invocation the steps come in a fixed order: delegate
\* detection, pack resolution, event routing, sound selection, the one state
\* write, then title, sound and notification; nothing is handed to a
\* collaborator before the state document holds what the invocation changed.
C33_StepOrder ==
    LET t == run.trace IN
    /\ \A i, j \in 1..Len(t) : i < j => Rank(t[i]) < Rank(t[j])
    /\ \A i \in 1..Len(t) :
          t[i] \in {"title", "sound", "notification"}
             => /\ {"detect", "rotate", "route", "select"}
                      \subseteq {t[k] : k \in 1..(i - 1)}
                /\ run.pc # "idle" /\ run.state_dirty
                      => /\ \E k \in 1..(i - 1) : t[k] = "write"
                         /\ agent_sessions = run.mem.agent_sessions
                         /\ session_packs = run.mem.session_packs
                         /\ prompt_timestamps = run.mem.prompt_timestamps
                         /\ last_played = run.mem.last_played

\* An invocation went through every step, the write and the three hand-offs
\* included.
C33_Witness ==
    run.trace = <<"detect", "rotate", "route", "select", "write",
                  "title", "sound", "notification">>

\* C34: the state document is rewritten atomically: at every moment, also
\* when the process stops during a write, a reader finds the complete
\* previous document or the complete new one, never an empty or truncated
\* one.
C34_AtomicWrite ==
    /\ [](docs.state = "object")
    /\ [][\/ UNCHANGED stateDoc
          \/ /\ agent_sessions' = run.mem.agent_sessions
             /\ session_packs' = run.mem.session_packs
             /\ prompt_timestamps' = run.mem.prompt_timestamps
             /\ last_played' = run.mem.last_played]_vars

\* The invocation in run has just written the state document.
Writes ==
    /\ peer' = peer
    /\ run'.trace # run.trace
    /\ run'.trace[Len(run'.trace)] = "write"

\* C35: when two invocations overlap, the document after a write is the one
\* of the invocation that writes: what it loaded and what it changed
\* itself.  Nothing is merged: an entry of another session that an earlier
\* writer stored in the meantime is back to what the later writer loaded.
C35_LastWriteWins ==
    [][Writes
       => LET sid == run.session_id IN
          /\ agent_sessions' \ {sid} = run.loaded.agent_sessions \ {sid}
          /\ \A s \in {"s1", "s2"} \ {sid} :
                /\ session_packs'[s] = run.loaded.session_packs[s]
                /\ prompt_timestamps'[s] = run.loaded.prompt_timestamps[s]
          /\ \A c \in DOMAIN last_played' :
                last_played'[c] # run.loaded.last_played[c]
                   => run'.pc = "emit" /\ c = run.category
                      /\ last_played'[c] = run.sound]_vars

\* Both invocations loaded the empty document.  The one for s1 marked its
\* session as delegated and is over; the one for s2 wrote after it, and s1
\* is no agent session in the document.
C35_Witness ==
    /\ out.exit = "delegate"
    /\ out.session_id = "s1"
    /\ out.wrote = 1
    /\ run.pc = "emit"
    /\ run.session_id = "s2"
    /\ run.writes = 1
    /\ "s1" \notin agent_sessions
    /\ session_packs["s2"] # ""

\* C36: while the pause marker is present no invocation sends a
\* notification, whatever the routing asks for; the title is still written
\* and the prompt time and the drawn pack are still stored.
C36_PausedNoNotification ==
    [][HookStep /\ paused
       => /\ ~out'.notified
          /\ out'.exit = "done"
                => /\ out'.title
                   /\ out'.event = "UserPromptSubmit" /\ "annoyed" \notin cfg.disabled
                         => LET ts == prompt_timestamps'[out'.session_id] IN
                            ts # <<>> /\ ts[Len(ts)] = now
                   /\ out'.drew
                         => session_packs'[out'.session_id] = out'.pack]_vars

\* Paused, a Stop event whose routing asks for a notification: none was
\* sent, the title was written and the pack drawn for the session is stored.
C36_Witness ==
    /\ paused
    /\ out.event = "Stop"
    /\ out.exit = "done"
    /\ out.notify
    /\ ~out.notified
    /\ out.title
    /\ out.drew
    /\ session_packs[out.session_id] = out.pack

\* C37: an event of one session leaves the entries of every other session
\* as they were: its prompt_timestamps, its session_packs entry and whether
\* it is in agent_sessions.
C37_OtherSessionsKept ==
    [][HookStep
       => \A b \in {"s1", "s2"} \ {out'.session_id} :
             /\ prompt_timestamps'[b] = prompt_timestamps[b]
             /\ session_packs'[b] = session_packs[b]
             /\ (b \in agent_sessions') <=> (b \in agent_sessions)]_vars

\* An event of s1 drew a pack and wrote, while s2 has a pack, recorded
\* prompts and the delegated mark.
C37_Witness ==
    /\ out.session_id = "s1"
    /\ out.drew
    /\ out.wrote = 1
    /\ session_packs["s1"] = out.pack
    /\ session_packs["s2"] # ""
    /\ prompt_timestamps["s2"] # <<>>
    /\ "s2" \in agent_sessions

\* Entries none of whose commands mentions one of the scripts, in order.
Without(entries, scripts) ==
    SelectSeq(entries,
              LAMBDA h : \A i \in 1..Len(h) : \A j \in 1..Len(h[i]) :
                            h[i][j] \notin scripts)

\* C38: after the installer has registered its hooks once or more, each of
\* the five events has exactly one peon entry, the last one of its list,
\* after the entries that were there before and mention none of notify.sh,
\* peon.sh and peon.py, in their order.
C38_RegisterIdempotent ==
    settings.last = "install"
       => \A event \in {"SessionStart", "UserPromptSubmit", "Stop",
                        "Notification", "PermissionRequest"} :
             LET was  == IF event \in DOMAIN settings.before
                         THEN settings.before[event] ELSE <<>>
                 kept == Without(was, {"notify.sh", "peon.sh", "peon.py"})
                 now_ == settings.hooks[event]
             IN /\ event \in DOMAIN settings.hooks
                /\ Len(now_) = Len(kept) + 1
                /\ SubSeq(now_, 1, Len(kept)) = kept
                /\ now_[Len(now_)] \in { << <<c, "peon.py">> >> : c \in {"python3", "python"} }

\* The installer ran twice on a Stop list with a peon entry between two
\* other entries: the two are kept in order and one peon entry follows.
C38_Witness ==
    /\ settings.last = "install"
    /\ settings.installs = 2
    /\ settings.before # <<>>
    /\ settings.before["Stop"] = <<UserEntry, peon_entry("python3"), OtherEntry>>
    /\ settings.hooks["Stop"] = <<UserEntry, OtherEntry, peon_entry("python")>>

\* C39: after the uninstaller's remove_hooks no event has an entry that
\* mentions peon.sh or peon.py, every other entry is kept in place and in
\* order, and an event is gone from the map exactly when no entry is left.
C39_RemoveHooks ==
    [][settings'.last = "uninstall"
       => LET h == settings.hooks
              g == settings'.hooks
          IN  /\ DOMAIN g = {e \in DOMAIN h : Without(h[e], {"peon.sh", "peon.py"}) # <<>>}
              /\ \A e \in DOMAIN g : g[e] = Without(h[e], {"peon.sh", "peon.py"})]_vars

\* After an installation and its removal the notify.sh entry and its
\* neighbours are back as they were, and the event that held peon entries
\* only is gone.
C39_Witness ==
    /\ settings.last = "uninstall"
    /\ settings.installs = 1
    /\ settings.before # <<>>
    /\ settings.before["Notification"] = <<MixedEntry, peon_entry("python"), peon_entry("python")>>
    /\ "Notification" \notin DOMAIN settings.hooks
    /\ settings.before["PreToolUse"] = <<NotifyEntry, NoHooksEntry, PeonShEntry, UserEntry>>
    /\ settings.hooks["PreToolUse"] = <<NotifyEntry, NoHooksEntry, UserEntry>>

====
